---- MODULE Spec2Model ----
(***************************************************************************)
(* The GeoJSON land-plot validator of pulp-portal-frontend                 *)
(* (geojsonValidatorWithSteps.ts), as a state machine.                     *)
(*                                                                         *)
(* The rule chain never reads the accumulator it writes to, so each rule   *)
(* is an operator that yields the sequence of addStep / addError calls it  *)
(* makes (and whether it ends in a TypeError); the actions AddStep and     *)
(* AddError apply those calls one at a time to `results`, which makes the  *)
(* intermediate states of the accumulator observable.                      *)
(***************************************************************************)
EXTENDS Integers, Sequences, FiniteSets, TLC

VARIABLES
    pc,        \* "idle" | "running" | "mapping" | "returned" | "threw";
               \* ring specifications: "idle" | "checked" | "validated" | "compared"
    entry,     \* "none" | "validate" | "validateAll" | "ring" | "rule"
    input,     \* the document handed to the entry point
    results,   \* the accumulator {isValid, errors, steps} of the running call
    pending,   \* addStep/addError calls the running rule chain still makes
    willThrow, \* the running rule chain raises a TypeError after `pending`
    index,     \* validateAllPlotsWithSteps: index of the feature being mapped;
               \* Ring Rule: length of the ring before a duplicate was appended
    plots,     \* validateAllPlotsWithSteps: the PerPlot entries built so far
    ring,      \* the ring handed to a ring-level check (ring specifications)
    plainResults \* the accumulator {isValid, errors} of the plain engine

vars == <<pc, entry, input, results, pending, willThrow, index, plots, ring,
          plainResults>>

(***************************************************************************)
(* JSON values.  Every value is a record with a kind field k, so that      *)
(* values of different JavaScript types can be compared.                   *)
(*                                                                         *)
(* A JSON number is v + e * 10^-7: v whole units (degrees) and e a count   *)
(* of tenths of the 10^-6 tolerance step, so that values differing only in *)
(* the 7th decimal exist next to whole-degree coordinates.                 *)
(***************************************************************************)
Undefined == "undefined"

Num(v, e) == [k |-> "num", v |-> v, e |-> e]
N(v) == Num(v, 0)
StrElem == [k |-> "str", v |-> 0, e |-> 0]           \* the string "x"

Position(c) == [k |-> "arr", c |-> c]
P(x, y) == Position(<<N(x), N(y)>>)
NullPosition == [k |-> "null", c |-> <<>>]           \* a ring element null

RingOf(pts) == [k |-> "arr", pts |-> pts]
NonArrayRing == [k |-> "prim", pts |-> <<>>]         \* a ring that is 5

Coordinates(rings) == [k |-> "arr", rings |-> rings]
NonArrayCoordinates == [k |-> "prim", rings |-> <<>>] \* absent, or "abc"

Geometry(type, coordinates) ==
    [k |-> "obj", type |-> type, coordinates |-> coordinates]
NullGeometry == [k |-> "null", type |-> Undefined,
                 coordinates |-> NonArrayCoordinates]
AbsentGeometry == [k |-> "absent", type |-> Undefined,
                   coordinates |-> NonArrayCoordinates]
PrimGeometry == [k |-> "prim", type |-> Undefined,
                 coordinates |-> NonArrayCoordinates] \* geometry: 7
Polygon(pts) == Geometry("Polygon", Coordinates(<<RingOf(pts)>>))

\* properties: keys is the set of own keys; areaIsNumber is typeof area.
Properties(keys, plot_ID, farmer_name, areaIsNumber) ==
    [k |-> "obj", keys |-> keys, plot_ID |-> plot_ID,
     farmer_name |-> farmer_name, areaIsNumber |-> areaIsNumber]
NullProperties == [k |-> "null", keys |-> {}, plot_ID |-> Undefined,
                   farmer_name |-> Undefined, areaIsNumber |-> FALSE]
AbsentProperties == [k |-> "absent", keys |-> {}, plot_ID |-> Undefined,
                     farmer_name |-> Undefined, areaIsNumber |-> FALSE]
PrimProperties == [k |-> "prim", keys |-> {}, plot_ID |-> Undefined,
                   farmer_name |-> Undefined, areaIsNumber |-> FALSE]

Feature(type, properties, geometry) ==
    [k |-> "obj", type |-> type, properties |-> properties,
     geometry |-> geometry]
NullFeature == [k |-> "null", type |-> Undefined,
                properties |-> AbsentProperties, geometry |-> AbsentGeometry]
PrimFeature == [k |-> "prim", type |-> Undefined,
                properties |-> AbsentProperties, geometry |-> AbsentGeometry]

\* features: k = "arr" with the elements, or "prim" when absent / not an array
Features(fs) == [k |-> "arr", fs |-> fs]
NonArrayFeatures == [k |-> "prim", fs |-> <<>>]

Document(type, features) == [k |-> "obj", type |-> type, features |-> features]
NonObjectDocument == [k |-> "prim", type |-> Undefined,
                      features |-> NonArrayFeatures]  \* null, 0, "abc"

(***************************************************************************)
(* Exact decimal arithmetic on JSON numbers.  A quantity is                *)
(* h + m * 10^-7 + l * 10^-14, or NaN; the coefficients stay far below     *)
(* 10^7 on the inputs used here, so the sign of a quantity is the sign of  *)
(* its first non-zero coefficient.                                         *)
(***************************************************************************)
NaN == [nan |-> TRUE, h |-> 0, m |-> 0, l |-> 0]
Q(h, m, l) == [nan |-> FALSE, h |-> h, m |-> m, l |-> l]

\* p[i] of a JavaScript array (0-based i), coerced to a number: a missing
\* element is undefined and a string "x" is not numeric, both give NaN.
At(p, i) ==
    IF i + 1 \in 1..Len(p.c) /\ p.c[i + 1].k = "num"
    THEN Q(p.c[i + 1].v, p.c[i + 1].e, 0)
    ELSE NaN

QSub(a, b) ==
    IF a.nan \/ b.nan THEN NaN ELSE Q(a.h - b.h, a.m - b.m, a.l - b.l)
QAdd(a, b) ==
    IF a.nan \/ b.nan THEN NaN ELSE Q(a.h + b.h, a.m + b.m, a.l + b.l)
\* product of two quantities without a 10^-14 part
QMul(a, b) ==
    IF a.nan \/ b.nan THEN NaN
    ELSE Q(a.h * b.h, a.h * b.m + a.m * b.h, a.m * b.m)
QScale(n, a) == IF a.nan THEN NaN ELSE Q(n * a.h, n * a.m, n * a.l)
QSign(a) ==
    IF a.h # 0 THEN (IF a.h > 0 THEN 1 ELSE -1)
    ELSE IF a.m # 0 THEN (IF a.m > 0 THEN 1 ELSE -1)
    ELSE IF a.l # 0 THEN (IF a.l > 0 THEN 1 ELSE -1)
    ELSE 0
\* a > b in JavaScript: false when either side is NaN
QGt(a, b) == ~a.nan /\ ~b.nan /\ QSign(QSub(a, b)) > 0
QAbs(a) == IF a.nan THEN NaN ELSE IF QSign(a) < 0 THEN QScale(-1, a) ELSE a
QIsZero(a) == ~a.nan /\ QSign(a) = 0

(***************************************************************************)
(* Diagnostics recorder.                                                   *)
(***************************************************************************)
\* A rule name / message of the source is the template text with its
\* interpolated values kept apart: f the feature index (-1: none), p the
\* point index (-1: none), s an interpolated string, arg interpolated numbers.
Rule(f, p, name) == [f |-> f, p |-> p, name |-> name]
Msg(f, p, text, s, arg) == [f |-> f, p |-> p, text |-> text, s |-> s, arg |-> arg]
FMsg(f, text) == Msg(f, -1, text, "", <<>>)
NoRule == Rule(-1, -1, "")

FreshResults == [isValid |-> TRUE, errors |-> <<>>, steps |-> <<>>]

\* the plain engine's { isValid: true, errors: [] } and its addError
FreshPlainResults == [isValid |-> TRUE, errors |-> <<>>]

plainAddError(res, message) ==
    [res EXCEPT !.isValid = FALSE, !.errors = Append(@, message)]

addErrorNoInvalidate(res, message) ==
    [res EXCEPT !.errors = Append(@, message)]

addError(res, message) ==
    [res EXCEPT !.isValid = FALSE, !.errors = Append(@, message)]

addStepSetsValid(res, rule, passed, message) ==
    [res EXCEPT !.isValid = passed,
                !.steps = Append(@, [rule |-> rule, passed |-> passed,
                                     message |-> message])]

addStep(res, rule, passed, message) ==
    [res EXCEPT !.steps = Append(@, [rule |-> rule, passed |-> passed,
                                     message |-> message])]

\* The calls a rule makes on the accumulator.
StepCall(rule, passed, message) ==
    [fn |-> "addStep", rule |-> rule, passed |-> passed, message |-> message]
ErrorCall(message) ==
    [fn |-> "addError", rule |-> NoRule, passed |-> FALSE, message |-> message]
\* addStep(.., true, ..)
Pass(rule, message) == <<StepCall(rule, TRUE, message)>>
\* addStep(.., false, m); addError(.., m): every failing branch of the source
Fail(rule, message) == <<StepCall(rule, FALSE, message), ErrorCall(message)>>

\* What a rule does: the calls it makes, then a normal return or a TypeError.
Ok(ops) == [ops |-> ops, threw |-> FALSE]
Thrown(ops) == [ops |-> ops, threw |-> TRUE]
\* sequential composition a; b
Then(a, b) ==
    IF a.threw THEN a ELSE [ops |-> a.ops \o b.ops, threw |-> b.threw]

(***************************************************************************)
(* Geometric helpers.                                                      *)
(***************************************************************************)
\* Math.round(val * 1e6) / 1e6 for numbers (round half up), identity otherwise
roundElem(val) ==
    IF val.k = "num" THEN Num(val.v, 10 * ((val.e + 5) \div 10)) ELSE val

roundCoord(coord) == [i \in 1..Len(coord.c) |-> roundElem(coord.c[i])]

\* roundCoord calls coord.map: a TypeError unless coord is an array
pointsEqualThrows(p1, p2) == p1.k # "arr" \/ p2.k # "arr"

\* as pointsEqual, without roundCoord
pointsEqualExact(p1, p2) ==
    /\ Len(p1.c) = Len(p2.c)
    /\ \A i \in 1..Len(p1.c) : p1.c[i] = p2.c[i]

pointsEqual(p1, p2) ==
    LET r1 == roundCoord(p1)
        r2 == roundCoord(p2)
    IN  /\ Len(r1) = Len(r2)
        /\ \A i \in 1..Len(r1) : r1[i] = r2[i]

ccw(a, b, c) ==
    QGt(QMul(QSub(At(c, 1), At(a, 1)), QSub(At(b, 0), At(a, 0))),
        QMul(QSub(At(b, 1), At(a, 1)), QSub(At(c, 0), At(a, 0))))

segmentsIntersect(p1, p2, p3, p4) ==
    /\ ccw(p1, p3, p4) # ccw(p2, p3, p4)
    /\ ccw(p1, p2, p3) # ccw(p1, p2, p4)

\* tan(d degrees) for d = 1..5 as <<numerator, denominator>>; each fraction is
\* the best approximation with a denominator below 3000, so the comparison
\* against it is exact for vectors with components below about 30.
TanDeg == <<<<31, 1776>>, <<11, 315>>, <<37, 706>>, <<153, 2188>>, <<193, 2206>>>>
NaNAngle == -1
SpikeDegrees == 5

\* The angle between the vectors with the given dot and cross product, in
\* whole degrees rounded down, every angle of 5 degrees or more reported as 5.
AcosDegrees(dot, cross) ==
    LET below(d) == /\ QSign(dot) > 0
                    /\ QGt(QScale(TanDeg[d][1], dot),
                           QScale(TanDeg[d][2], QAbs(cross)))
    IN  IF below(1) THEN 0
        ELSE IF below(2) THEN 1
        ELSE IF below(3) THEN 2
        ELSE IF below(4) THEN 3
        ELSE IF below(5) THEN 4
        ELSE 5

calculateAngle(p1, p2, p3) ==
    LET v1 == <<QSub(At(p1, 0), At(p2, 0)), QSub(At(p1, 1), At(p2, 1))>>
        v2 == <<QSub(At(p3, 0), At(p2, 0)), QSub(At(p3, 1), At(p2, 1))>>
        dotProduct == QAdd(QMul(v1[1], v2[1]), QMul(v1[2], v2[2]))
        cross == QSub(QMul(v1[1], v2[2]), QMul(v1[2], v2[1]))
        mag1IsZero == QIsZero(v1[1]) /\ QIsZero(v1[2])
        mag2IsZero == QIsZero(v2[1]) /\ QIsZero(v2[2])
    IN  IF mag1IsZero \/ mag2IsZero THEN 180
        ELSE IF dotProduct.nan THEN NaNAngle
        ELSE AcosDegrees(dotProduct, cross)

\* angle < 5 in JavaScript: false for NaN
isSpikeAngle(angle) == angle # NaNAngle /\ angle < SpikeDegrees

(***************************************************************************)
(* The rule chain, leaf first.  Each rule yields Ok(calls) or              *)
(* Thrown(calls): the addStep / addError calls it makes, in order.         *)
(***************************************************************************)
\* ${lon} / ${lat} in a message: the number, or nothing for the string "x"
Shown(val) == IF val.k = "num" THEN <<val.v, val.e>> ELSE <<>>

\* as outOfRange, with x <= lo || x >= hi
outOfRangeExclusive(val, lo, hi) ==
    \/ val.k # "num"
    \/ ~QGt(Q(val.v, val.e, 0), Q(lo, 0, 0))
    \/ ~QGt(Q(hi, 0, 0), Q(val.v, val.e, 0))

\* typeof x !== "number" || x < lo || x > hi
outOfRange(val, lo, hi) ==
    \/ val.k # "num"
    \/ QGt(Q(lo, 0, 0), Q(val.v, val.e, 0))
    \/ QGt(Q(val.v, val.e, 0), Q(hi, 0, 0))

\* as validateCoordinateWithSteps, with a return after the failing longitude
validateCoordinateWithStepsLonReturns(coord, featureIndex, pointIndex) ==
    LET f == featureIndex
        p == pointIndex
    IN
    IF coord.k # "arr" \/ Len(coord.c) < 2 \/ Len(coord.c) > 3
    THEN Ok(Fail(Rule(f, p, "format"),
                 Msg(f, p, "Invalid coordinate format", "", <<>>)))
    ELSE
      LET lon == coord.c[1]
          lat == coord.c[2]
      IN IF outOfRange(lon, -180, 180)
         THEN Ok(Pass(Rule(f, p, "format"),
                      Msg(f, p, "Coordinate format is valid", "", <<>>))
                 \o Fail(Rule(f, p, "longitude"),
                         Msg(f, p, "Invalid longitude", "", Shown(lon))))
         ELSE Ok(Pass(Rule(f, p, "format"),
                      Msg(f, p, "Coordinate format is valid", "", <<>>))
                 \o Pass(Rule(f, p, "longitude"),
                         Msg(f, p, "Longitude is valid", "", <<>>))
                 \o (IF outOfRange(lat, -90, 90)
                     THEN Fail(Rule(f, p, "latitude"),
                               Msg(f, p, "Invalid latitude", "", Shown(lat)))
                     ELSE Pass(Rule(f, p, "latitude"),
                               Msg(f, p, "Latitude is valid", "", <<>>))))

validateCoordinateWithSteps(coord, featureIndex, pointIndex) ==
    LET f == featureIndex
        p == pointIndex
    IN
    IF coord.k # "arr" \/ Len(coord.c) < 2 \/ Len(coord.c) > 3
    THEN Ok(Fail(Rule(f, p, "format"),
                 Msg(f, p, "Invalid coordinate format", "", <<>>)))
    ELSE
      LET lon == coord.c[1]
          lat == coord.c[2]
      IN Ok(Pass(Rule(f, p, "format"),
                 Msg(f, p, "Coordinate format is valid", "", <<>>))
            \o (IF outOfRange(lon, -180, 180)
                THEN Fail(Rule(f, p, "longitude"),
                          Msg(f, p, "Invalid longitude", "", Shown(lon)))
                ELSE Pass(Rule(f, p, "longitude"),
                          Msg(f, p, "Longitude is valid", "", <<>>)))
            \o (IF outOfRange(lat, -90, 90)
                THEN Fail(Rule(f, p, "latitude"),
                          Msg(f, p, "Invalid latitude", "", Shown(lat)))
                ELSE Pass(Rule(f, p, "latitude"),
                          Msg(f, p, "Latitude is valid", "", <<>>))))

\* as SegmentPairs, with the inner loop starting at j = i + 3
SegmentPairsFromThree(n) ==
    {ij \in (0..(n - 2)) \X (0..(n - 2)) :
        /\ ij[2] >= ij[1] + 3
        /\ ~(ij[1] = 0 /\ ij[2] = n - 2)}

\* the pairs (i, j) of segments the double loop compares, 0-based
SegmentPairs(n) ==
    {ij \in (0..(n - 2)) \X (0..(n - 2)) :
        /\ ij[2] >= ij[1] + 2
        /\ ~(ij[1] = 0 /\ ij[2] = n - 2)}

\* found: some compared pair intersects (the loops stop at the first one)
selfIntersectionFound(pts) ==
    \E ij \in SegmentPairs(Len(pts)) :
        segmentsIntersect(pts[ij[1] + 1], pts[ij[1] + 2],
                          pts[ij[2] + 1], pts[ij[2] + 2])

\* as checkSelfIntersectionsWithSteps, without the two breaks: one failing
\* step for every compared pair that intersects
checkSelfIntersectionsWithStepsReportAll(pts, featureIndex) ==
    LET hits == Cardinality(
                  {ij \in SegmentPairs(Len(pts)) :
                      segmentsIntersect(pts[ij[1] + 1], pts[ij[1] + 2],
                                        pts[ij[2] + 1], pts[ij[2] + 2])})
        message == FMsg(featureIndex, "Self-intersection detected")
    IN  IF hits > 0
        THEN Ok([k \in 1..(2 * hits) |->
                   IF k % 2 = 1
                   THEN StepCall(Rule(featureIndex, -1, "self-intersection"),
                                 FALSE, message)
                   ELSE ErrorCall(message)])
        ELSE Ok(Pass(Rule(featureIndex, -1, "self-intersection"),
                     FMsg(featureIndex, "No self-intersections")))

checkSelfIntersectionsWithSteps(pts, featureIndex) ==
    IF selfIntersectionFound(pts)
    THEN Ok(Fail(Rule(featureIndex, -1, "self-intersection"),
                 FMsg(featureIndex, "Self-intersection detected")))
    ELSE Ok(Pass(Rule(featureIndex, -1, "self-intersection"),
                 FMsg(featureIndex, "No self-intersections")))

\* The plain engine's scan: the same double loop over the same pairs with the
\* same segmentsIntersect, one addError and a return at the first hit.
checkSelfIntersections(pts, featureIndex, res) ==
    IF selfIntersectionFound(pts)
    THEN plainAddError(res, FMsg(featureIndex, "Self-intersection detected"))
    ELSE res

\* the failing steps of the loop i = 1 .. ring.length - 2, from i on
RECURSIVE spikeLoop(_, _, _)
spikeLoop(pts, featureIndex, i) ==
    IF i >= Len(pts) - 1 THEN <<>>
    ELSE LET angle == calculateAngle(pts[i], pts[i + 1], pts[i + 2])
         IN (IF isSpikeAngle(angle)
             THEN Fail(Rule(featureIndex, -1, "spike vertex"),
                       Msg(featureIndex, -1, "Spike vertex detected", "",
                           <<angle>>))
             ELSE <<>>)
            \o spikeLoop(pts, featureIndex, i + 1)

\* as checkForSpikesWithSteps, with the angle at the first / last position of
\* a closed ring examined as well
checkForSpikesWithStepsAndSeam(pts, featureIndex) ==
    LET seam == calculateAngle(pts[Len(pts) - 1], pts[1], pts[2])
        found == spikeLoop(pts, featureIndex, 1)
                 \o (IF pts[1] = pts[Len(pts)] /\ isSpikeAngle(seam)
                     THEN Fail(Rule(featureIndex, -1, "spike vertex"),
                               Msg(featureIndex, -1, "Spike vertex detected", "",
                                   <<seam>>))
                     ELSE <<>>)
    IN IF found # <<>> THEN Ok(found)
       ELSE Ok(Pass(Rule(featureIndex, -1, "spike vertex"),
                    FMsg(featureIndex, "No spike vertices")))

checkForSpikesWithSteps(pts, featureIndex) ==
    LET found == spikeLoop(pts, featureIndex, 1)
    IN IF found # <<>> THEN Ok(found)
       ELSE Ok(Pass(Rule(featureIndex, -1, "spike vertex"),
                    FMsg(featureIndex, "No spike vertices")))

\* as checkExcessiveStraightLinesWithSteps, without the triangle exemption
checkExcessiveStraightLinesWithStepsNoExemption(pts, featureIndex) ==
    IF Len(pts) <= 4
    THEN Ok(Fail(Rule(featureIndex, -1, "straight lines"),
                 FMsg(featureIndex, "Polygon may have excessive straight lines (not enough points for curves)")))
    ELSE Ok(Pass(Rule(featureIndex, -1, "straight lines"),
                 FMsg(featureIndex, "Polygon has enough points for curves")))

checkExcessiveStraightLinesWithSteps(pts, featureIndex) ==
    IF Len(pts) = 4 /\ pointsEqual(pts[1], pts[Len(pts)])
    THEN Ok(Pass(Rule(featureIndex, -1, "straight lines"),
                 FMsg(featureIndex, "Polygon is a closed triangle (acceptable)")))
    ELSE IF Len(pts) <= 4
    THEN Ok(Fail(Rule(featureIndex, -1, "straight lines"),
                 FMsg(featureIndex, "Polygon may have excessive straight lines (not enough points for curves)")))
    ELSE Ok(Pass(Rule(featureIndex, -1, "straight lines"),
                 FMsg(featureIndex, "Polygon has enough points for curves")))

\* as duplicatePointsLoop, with i < ring.length - 1
RECURSIVE duplicatePointsLoopSkipsLast(_, _, _)
duplicatePointsLoopSkipsLast(pts, featureIndex, i) ==
    IF i >= Len(pts) - 1 THEN Ok(<<>>)
    ELSE IF pointsEqualThrows(pts[i + 1], pts[i]) THEN Thrown(<<>>)
    ELSE Then(Ok(IF pointsEqual(pts[i + 1], pts[i])
                 THEN Fail(Rule(featureIndex, -1, "duplicate points"),
                           Msg(featureIndex, -1, "Duplicate consecutive points at",
                               "", <<i - 1, i>>))
                 ELSE <<>>),
              duplicatePointsLoopSkipsLast(pts, featureIndex, i + 1))

\* Rule 14, the loop i = 1 .. ring.length - 1, from i on
RECURSIVE duplicatePointsLoop(_, _, _)
duplicatePointsLoop(pts, featureIndex, i) ==
    IF i >= Len(pts) THEN Ok(<<>>)
    ELSE IF pointsEqualThrows(pts[i + 1], pts[i]) THEN Thrown(<<>>)
    ELSE Then(Ok(IF pointsEqual(pts[i + 1], pts[i])
                 THEN Fail(Rule(featureIndex, -1, "duplicate points"),
                           Msg(featureIndex, -1, "Duplicate consecutive points at",
                               "", <<i - 1, i>>))
                 ELSE <<>>),
              duplicatePointsLoop(pts, featureIndex, i + 1))

\* as zeroLengthEdgeLoop, comparing without roundCoord
RECURSIVE zeroLengthEdgeLoopExact(_, _, _)
zeroLengthEdgeLoopExact(pts, featureIndex, i) ==
    IF i >= Len(pts) THEN Ok(<<>>)
    ELSE IF pointsEqualThrows(pts[i + 1], pts[i]) THEN Thrown(<<>>)
    ELSE Then(Ok(IF pointsEqualExact(pts[i + 1], pts[i])
                 THEN Fail(Rule(featureIndex, -1, "zero-length edge"),
                           Msg(featureIndex, -1, "Zero-length edge at points",
                               "", <<i - 1, i>>))
                 ELSE <<>>),
              zeroLengthEdgeLoopExact(pts, featureIndex, i + 1))

\* Rule 16, the loop i = 1 .. ring.length - 1, from i on
RECURSIVE zeroLengthEdgeLoop(_, _, _)
zeroLengthEdgeLoop(pts, featureIndex, i) ==
    IF i >= Len(pts) THEN Ok(<<>>)
    ELSE IF pointsEqualThrows(pts[i + 1], pts[i]) THEN Thrown(<<>>)
    ELSE Then(Ok(IF pointsEqual(pts[i + 1], pts[i])
                 THEN Fail(Rule(featureIndex, -1, "zero-length edge"),
                           Msg(featureIndex, -1, "Zero-length edge at points",
                               "", <<i - 1, i>>))
                 ELSE <<>>),
              zeroLengthEdgeLoop(pts, featureIndex, i + 1))

\* ring.forEach(validateCoordinateWithSteps), from pointIndex on
RECURSIVE coordinatesLoop(_, _, _)
coordinatesLoop(pts, featureIndex, pointIndex) ==
    IF pointIndex >= Len(pts) THEN Ok(<<>>)
    ELSE Then(validateCoordinateWithSteps(pts[pointIndex + 1], featureIndex,
                                          pointIndex),
              coordinatesLoop(pts, featureIndex, pointIndex + 1))

\* as ringClosure, with the failing step but without its addError
ringClosureStepOnly(pts, featureIndex) ==
    IF pointsEqualThrows(pts[1], pts[Len(pts)]) THEN Thrown(<<>>)
    ELSE IF ~pointsEqual(pts[1], pts[Len(pts)])
    THEN Ok(<<StepCall(Rule(featureIndex, -1, "ring closure"), FALSE,
                       FMsg(featureIndex, "Ring must be closed (first/last points identical)"))>>)
    ELSE Ok(Pass(Rule(featureIndex, -1, "ring closure"),
                 FMsg(featureIndex, "Ring is closed")))

ringClosure(pts, featureIndex) ==
    IF pointsEqualThrows(pts[1], pts[Len(pts)]) THEN Thrown(<<>>)
    ELSE IF ~pointsEqual(pts[1], pts[Len(pts)])
    THEN Ok(Fail(Rule(featureIndex, -1, "ring closure"),
                 FMsg(featureIndex, "Ring must be closed (first/last points identical)")))
    ELSE Ok(Pass(Rule(featureIndex, -1, "ring closure"),
                 FMsg(featureIndex, "Ring is closed")))

\* as validateRingWithSteps, with ring.length < 3
validateRingWithStepsMinThree(r, featureIndex) ==
    IF r.k # "arr"
    THEN Ok(Fail(Rule(featureIndex, -1, "ring array"),
                 FMsg(featureIndex, "Ring must be an array of positions")))
    ELSE IF Len(r.pts) < 3
    THEN Ok(Pass(Rule(featureIndex, -1, "ring array"),
                 FMsg(featureIndex, "Ring is an array of positions"))
            \o Fail(Rule(featureIndex, -1, "ring points"),
                    FMsg(featureIndex, "Ring must have at least 4 points")))
    ELSE
      Then(Ok(Pass(Rule(featureIndex, -1, "ring array"),
                   FMsg(featureIndex, "Ring is an array of positions"))
              \o Pass(Rule(featureIndex, -1, "ring points"),
                      FMsg(featureIndex, "Ring has at least 4 points"))),
      Then(ringClosure(r.pts, featureIndex),
      Then(duplicatePointsLoop(r.pts, featureIndex, 1),
      Then(zeroLengthEdgeLoop(r.pts, featureIndex, 1),
      Then(coordinatesLoop(r.pts, featureIndex, 0),
      Then(checkSelfIntersectionsWithSteps(r.pts, featureIndex),
      Then(checkForSpikesWithSteps(r.pts, featureIndex),
           checkExcessiveStraightLinesWithSteps(r.pts, featureIndex))))))))

validateRingWithSteps(r, featureIndex) ==
    IF r.k # "arr"
    THEN Ok(Fail(Rule(featureIndex, -1, "ring array"),
                 FMsg(featureIndex, "Ring must be an array of positions")))
    ELSE IF Len(r.pts) < 4
    THEN Ok(Pass(Rule(featureIndex, -1, "ring array"),
                 FMsg(featureIndex, "Ring is an array of positions"))
            \o Fail(Rule(featureIndex, -1, "ring points"),
                    FMsg(featureIndex, "Ring must have at least 4 points")))
    ELSE
      Then(Ok(Pass(Rule(featureIndex, -1, "ring array"),
                   FMsg(featureIndex, "Ring is an array of positions"))
              \o Pass(Rule(featureIndex, -1, "ring points"),
                      FMsg(featureIndex, "Ring has at least 4 points"))),
      Then(ringClosure(r.pts, featureIndex),
      Then(duplicatePointsLoop(r.pts, featureIndex, 1),
      Then(zeroLengthEdgeLoop(r.pts, featureIndex, 1),
      Then(coordinatesLoop(r.pts, featureIndex, 0),
      Then(checkSelfIntersectionsWithSteps(r.pts, featureIndex),
      Then(checkForSpikesWithSteps(r.pts, featureIndex),
           checkExcessiveStraightLinesWithSteps(r.pts, featureIndex))))))))

\* as validatePolygonCoordinatesWithSteps, with coordinates.length > 2
validatePolygonCoordinatesWithStepsAllowsHole(coordinates, featureIndex) ==
    IF Len(coordinates.rings) > 2
    THEN Ok(Fail(Rule(featureIndex, -1, "interior rings"),
                 FMsg(featureIndex, "Interior rings (holes) are not allowed")))
    ELSE IF Len(coordinates.rings) = 0
    THEN Ok(Pass(Rule(featureIndex, -1, "interior rings"),
                 FMsg(featureIndex, "No interior rings"))
            \o Fail(Rule(featureIndex, -1, "exterior ring"),
                    FMsg(featureIndex, "Polygon must have an exterior ring")))
    ELSE Then(Ok(Pass(Rule(featureIndex, -1, "interior rings"),
                      FMsg(featureIndex, "No interior rings"))
                 \o Pass(Rule(featureIndex, -1, "exterior ring"),
                         FMsg(featureIndex, "Polygon has an exterior ring"))),
              validateRingWithSteps(coordinates.rings[1], featureIndex))

validatePolygonCoordinatesWithSteps(coordinates, featureIndex) ==
    IF Len(coordinates.rings) > 1
    THEN Ok(Fail(Rule(featureIndex, -1, "interior rings"),
                 FMsg(featureIndex, "Interior rings (holes) are not allowed")))
    ELSE IF Len(coordinates.rings) = 0
    THEN Ok(Pass(Rule(featureIndex, -1, "interior rings"),
                 FMsg(featureIndex, "No interior rings"))
            \o Fail(Rule(featureIndex, -1, "exterior ring"),
                    FMsg(featureIndex, "Polygon must have an exterior ring")))
    ELSE Then(Ok(Pass(Rule(featureIndex, -1, "interior rings"),
                      FMsg(featureIndex, "No interior rings"))
                 \o Pass(Rule(featureIndex, -1, "exterior ring"),
                         FMsg(featureIndex, "Polygon has an exterior ring"))),
              validateRingWithSteps(coordinates.rings[1], featureIndex))

validTypes == {"Point", "LineString", "Polygon", "MultiPoint",
               "MultiLineString", "MultiPolygon", "GeometryCollection"}

\* as validateGeometryWithSteps, without the Polygon-only test
validateGeometryWithStepsAnyKind(geometry, featureIndex) ==
    IF geometry.type = Undefined \/ geometry.type \notin validTypes
    THEN Ok(Fail(Rule(featureIndex, -1, "geometry type"),
                 FMsg(featureIndex, "Invalid geometry type")))
    ELSE IF geometry.coordinates.k # "arr"
    THEN Ok(Pass(Rule(featureIndex, -1, "geometry type"),
                 Msg(featureIndex, -1, "Geometry type is", geometry.type, <<>>))
            \o Fail(Rule(featureIndex, -1, "coordinates"),
                    FMsg(featureIndex, "Coordinates must be an array")))
    ELSE Then(Ok(Pass(Rule(featureIndex, -1, "geometry type"),
                      Msg(featureIndex, -1, "Geometry type is", geometry.type, <<>>))
                 \o Pass(Rule(featureIndex, -1, "coordinates"),
                         FMsg(featureIndex, "Coordinates are an array"))),
              validatePolygonCoordinatesWithSteps(geometry.coordinates,
                                                  featureIndex))

validateGeometryWithSteps(geometry, featureIndex) ==
    IF geometry.type = Undefined \/ geometry.type \notin validTypes
    THEN Ok(Fail(Rule(featureIndex, -1, "geometry type"),
                 FMsg(featureIndex, "Invalid geometry type")))
    ELSE IF geometry.type # "Polygon"
    THEN Ok(Pass(Rule(featureIndex, -1, "geometry type"),
                 Msg(featureIndex, -1, "Geometry type is", geometry.type, <<>>))
            \o Fail(Rule(featureIndex, -1, "geometry type"),
                    FMsg(featureIndex, "Only Polygon geometries are supported")))
    ELSE IF geometry.coordinates.k # "arr"
    THEN Ok(Pass(Rule(featureIndex, -1, "geometry type"),
                 Msg(featureIndex, -1, "Geometry type is", geometry.type, <<>>))
            \o Fail(Rule(featureIndex, -1, "coordinates"),
                    FMsg(featureIndex, "Coordinates must be an array")))
    ELSE Then(Ok(Pass(Rule(featureIndex, -1, "geometry type"),
                      Msg(featureIndex, -1, "Geometry type is", geometry.type, <<>>))
                 \o Pass(Rule(featureIndex, -1, "coordinates"),
                         FMsg(featureIndex, "Coordinates are an array"))),
              validatePolygonCoordinatesWithSteps(geometry.coordinates,
                                                  featureIndex))

\* as requiredProps, in the other order
requiredPropsSwapped == <<"farmer_name", "plot_ID">>

requiredProps == <<"plot_ID", "farmer_name">>

\* requiredProps.forEach(...), from the n-th name on (1-based)
RECURSIVE requiredPropsLoop(_, _, _)
requiredPropsLoop(feature, featureIndex, n) ==
    IF n > Len(requiredProps) THEN <<>>
    ELSE LET prop == requiredProps[n]
         IN (IF feature.properties.k = "null"
                \/ prop \notin feature.properties.keys
             THEN Fail(Rule(featureIndex, -1, "property " \o prop),
                       Msg(featureIndex, -1, "Missing required property",
                           prop, <<>>))
             ELSE Pass(Rule(featureIndex, -1, "property " \o prop),
                       Msg(featureIndex, -1, "Property is present", prop, <<>>)))
            \o requiredPropsLoop(feature, featureIndex, n + 1)

\* Rule 24: "area" in feature.properties is a TypeError when properties is null
areaRule(feature, featureIndex) ==
    IF feature.properties.k = "null" THEN Thrown(<<>>)
    ELSE IF "area" \in feature.properties.keys
    THEN (IF ~feature.properties.areaIsNumber
          THEN Ok(Fail(Rule(featureIndex, -1, "property area"),
                       FMsg(featureIndex, "'area' property must be a number")))
          ELSE Ok(Pass(Rule(featureIndex, -1, "property area"),
                       FMsg(featureIndex, "'area' property is a number"))))
    ELSE Ok(<<>>)

\* as geometryRule, with a null geometry handed on to the Geometry Rule
geometryRuleDelegatesNull(feature, featureIndex) ==
    IF feature.geometry.k = "absent"
    THEN Ok(Fail(Rule(featureIndex, -1, "geometry"),
                 FMsg(featureIndex, "Missing 'geometry' property")))
    ELSE validateGeometryWithSteps(feature.geometry, featureIndex)

\* Rule 21 and the delegation to the Geometry Rule
geometryRule(feature, featureIndex) ==
    IF feature.geometry.k = "absent"
    THEN Ok(Fail(Rule(featureIndex, -1, "geometry"),
                 FMsg(featureIndex, "Missing 'geometry' property")))
    ELSE IF feature.geometry.k = "null"
    THEN Ok(Pass(Rule(featureIndex, -1, "geometry"),
                 FMsg(featureIndex, "geometry is null (allowed)")))
    ELSE validateGeometryWithSteps(feature.geometry, featureIndex)

\* as validateFeatureWithSteps, without the return after the failing
\* properties step
validateFeatureWithStepsNoPropertiesReturn(feature, featureIndex) ==
    IF feature.k = "null" THEN Thrown(<<>>)
    ELSE IF feature.type # "Feature"
    THEN Ok(Fail(Rule(featureIndex, -1, "type"),
                 FMsg(featureIndex, "Type must be 'Feature'")))
    ELSE
      Then(Ok(Pass(Rule(featureIndex, -1, "type"),
                   FMsg(featureIndex, "type is 'Feature'"))
              \o (IF feature.properties.k \in {"absent", "prim"}
                  THEN Fail(Rule(featureIndex, -1, "properties"),
                            FMsg(featureIndex, "'properties' must be an object or null"))
                  ELSE Pass(Rule(featureIndex, -1, "properties"),
                            FMsg(featureIndex, "'properties' is valid")))
              \o requiredPropsLoop(feature, featureIndex, 1)),
      Then(areaRule(feature, featureIndex),
           geometryRule(feature, featureIndex)))

validateFeatureWithSteps(feature, featureIndex) ==
    IF feature.k = "null" THEN Thrown(<<>>)      \* feature.type of null
    ELSE IF feature.type # "Feature"
    THEN Ok(Fail(Rule(featureIndex, -1, "type"),
                 FMsg(featureIndex, "Type must be 'Feature'")))
    ELSE IF feature.properties.k \in {"absent", "prim"}
    THEN Ok(Pass(Rule(featureIndex, -1, "type"),
                 FMsg(featureIndex, "type is 'Feature'"))
            \o Fail(Rule(featureIndex, -1, "properties"),
                    FMsg(featureIndex, "'properties' must be an object or null")))
    ELSE
      Then(Ok(Pass(Rule(featureIndex, -1, "type"),
                   FMsg(featureIndex, "type is 'Feature'"))
              \o Pass(Rule(featureIndex, -1, "properties"),
                      FMsg(featureIndex, "'properties' is valid"))
              \o requiredPropsLoop(feature, featureIndex, 1)),
      Then(areaRule(feature, featureIndex),
           geometryRule(feature, featureIndex)))

\* as featuresLoop, leaving the loop after the first feature with an error
RECURSIVE featuresLoopStopsAtInvalid(_, _)
featuresLoopStopsAtInvalid(fs, i) ==
    IF i >= Len(fs) THEN Ok(<<>>)
    ELSE LET t == validateFeatureWithSteps(fs[i + 1], i)
         IN IF \E k \in 1..Len(t.ops) : t.ops[k].fn = "addError"
            THEN t
            ELSE Then(t, featuresLoopStopsAtInvalid(fs, i + 1))

\* geojson.features.forEach(validateFeatureWithSteps), from index on
RECURSIVE featuresLoop(_, _)
featuresLoop(fs, i) ==
    IF i >= Len(fs) THEN Ok(<<>>)
    ELSE Then(validateFeatureWithSteps(fs[i + 1], i), featuresLoop(fs, i + 1))

RootRule == Rule(-1, -1, "Root type")
FeaturesRule == Rule(-1, -1, "Features array")

\* as validateGeoJSONWithSteps, without the return after a wrong root type
validateGeoJSONWithStepsNoReturn(geojson) ==
    IF geojson.k # "obj"
    THEN Ok(Fail(RootRule, FMsg(-1, "GeoJSON must be a valid object")))
    ELSE Then(Ok(IF geojson.type # "FeatureCollection"
                 THEN Fail(RootRule, FMsg(-1, "Root type must be 'FeatureCollection'"))
                 ELSE Pass(RootRule, FMsg(-1, "Root type is 'FeatureCollection'"))),
              IF geojson.features.k # "arr" \/ Len(geojson.features.fs) = 0
              THEN Ok(Fail(FeaturesRule, FMsg(-1, "'features' must be a non-empty array")))
              ELSE Then(Ok(Pass(FeaturesRule, FMsg(-1, "'features' is a non-empty array"))),
                        featuresLoop(geojson.features.fs, 0)))

\* as validateGeoJSONWithSteps, without the features.length === 0 test
validateGeoJSONWithStepsAcceptsEmpty(geojson) ==
    IF geojson.k # "obj"
    THEN Ok(Fail(RootRule, FMsg(-1, "GeoJSON must be a valid object")))
    ELSE IF geojson.type # "FeatureCollection"
    THEN Ok(Fail(RootRule, FMsg(-1, "Root type must be 'FeatureCollection'")))
    ELSE IF geojson.features.k # "arr"
    THEN Ok(Pass(RootRule, FMsg(-1, "Root type is 'FeatureCollection'"))
            \o Fail(FeaturesRule, FMsg(-1, "'features' must be a non-empty array")))
    ELSE Then(Ok(Pass(RootRule, FMsg(-1, "Root type is 'FeatureCollection'"))
                 \o Pass(FeaturesRule, FMsg(-1, "'features' is a non-empty array"))),
              featuresLoop(geojson.features.fs, 0))

validateGeoJSONWithSteps(geojson) ==
    IF geojson.k # "obj"
    THEN Ok(Fail(RootRule, FMsg(-1, "GeoJSON must be a valid object")))
    ELSE IF geojson.type # "FeatureCollection"
    THEN Ok(Fail(RootRule, FMsg(-1, "Root type must be 'FeatureCollection'")))
    ELSE IF geojson.features.k # "arr" \/ Len(geojson.features.fs) = 0
    THEN Ok(Pass(RootRule, FMsg(-1, "Root type is 'FeatureCollection'"))
            \o Fail(FeaturesRule, FMsg(-1, "'features' must be a non-empty array")))
    ELSE Then(Ok(Pass(RootRule, FMsg(-1, "Root type is 'FeatureCollection'"))
                 \o Pass(FeaturesRule, FMsg(-1, "'features' is a non-empty array"))),
              featuresLoop(geojson.features.fs, 0))

\* the guard of validateAllPlotsWithSteps that returns []
rejectsRoot(geojson) ==
    \/ geojson.k # "obj"
    \/ geojson.type # "FeatureCollection"
    \/ geojson.features.k # "arr"

\* feature?.properties?.plot_ID || `Feature ${index}`: "" is falsy
plotIdOf(feature, featureIndex) ==
    IF feature.k = "obj" /\ feature.properties.k = "obj"
       /\ "plot_ID" \in feature.properties.keys
       /\ feature.properties.plot_ID # ""
    THEN [name |-> feature.properties.plot_ID, fallback |-> -1]
    ELSE [name |-> "Feature", fallback |-> featureIndex]

\* feature?.properties?.farmer_name || ""
farmerOf(feature) ==
    IF feature.k = "obj" /\ feature.properties.k = "obj"
       /\ "farmer_name" \in feature.properties.keys
    THEN feature.properties.farmer_name
    ELSE ""

(***************************************************************************)
(* The plain engine, validateGeoJSON: the same rule chain with addError    *)
(* only.  Each rule yields Ok(calls) or Thrown(calls) as above, every call *)
(* an addError.                                                            *)
(***************************************************************************)
\* p1.length === p2.length && p1.every((val, i) => val === p2[i])
plainPointsEqual(p1, p2) ==
    /\ Len(p1.c) = Len(p2.c)
    /\ \A i \in 1..Len(p1.c) : p1.c[i] = p2.c[i]

\* num.toString() has a "." followed by more than 6 characters.  A number is
\* v + e * 10^-7 with |e| < 10^7, so it prints with 7 decimals when e is not a
\* multiple of 10, except that a magnitude below 10^-6 prints in exponent
\* notation ("4e-7"), which has no "."; the string "x" has none either.
hasExcessivePrecision(num) ==
    /\ num.k = "num"
    /\ num.e % 10 # 0
    /\ ~(num.v = 0 /\ num.e > -10 /\ num.e < 10)

validateCoordinate(coord, featureIndex, pointIndex) ==
    LET f == featureIndex
        p == pointIndex
    IN
    IF coord.k # "arr" \/ Len(coord.c) < 2 \/ Len(coord.c) > 3
    THEN Ok(<<ErrorCall(Msg(f, p, "Invalid coordinate format", "", <<>>))>>)
    ELSE
      LET lon == coord.c[1]
          lat == coord.c[2]
      IN Ok((IF outOfRange(lon, -180, 180)
             THEN <<ErrorCall(Msg(f, p, "Invalid longitude", "", Shown(lon)))>>
             ELSE <<>>)
            \o (IF outOfRange(lat, -90, 90)
                THEN <<ErrorCall(Msg(f, p, "Invalid latitude", "", Shown(lat)))>>
                ELSE <<>>)
            \o (IF hasExcessivePrecision(lon) \/ hasExcessivePrecision(lat)
                THEN <<ErrorCall(Msg(f, p, "Excessive coordinate precision",
                                     "", <<>>))>>
                ELSE <<>>))

\* the loop i = 1 .. ring.length - 2 of checkForSpikes, from i on
RECURSIVE checkForSpikes(_, _, _)
checkForSpikes(pts, featureIndex, i) ==
    IF i >= Len(pts) - 1 THEN <<>>
    ELSE LET angle == calculateAngle(pts[i], pts[i + 1], pts[i + 2])
         IN (IF isSpikeAngle(angle)
             THEN <<ErrorCall(Msg(featureIndex, -1, "Spike vertex detected", "",
                                  <<angle>>))>>
             ELSE <<>>)
            \o checkForSpikes(pts, featureIndex, i + 1)

checkExcessiveStraightLines(pts, featureIndex) ==
    IF Len(pts) <= 4
    THEN <<ErrorCall(FMsg(featureIndex, "Polygon may have excessive straight lines (not enough points for curves)"))>>
    ELSE <<>>

\* the two loops i = 1 .. ring.length - 1 of validateRing, from i on
RECURSIVE plainAdjacentLoop(_, _, _, _)
plainAdjacentLoop(pts, featureIndex, text, i) ==
    IF i >= Len(pts) THEN Ok(<<>>)
    ELSE IF pointsEqualThrows(pts[i + 1], pts[i]) THEN Thrown(<<>>)
    ELSE Then(Ok(IF plainPointsEqual(pts[i + 1], pts[i])
                 THEN <<ErrorCall(Msg(featureIndex, -1, text, "", <<i - 1, i>>))>>
                 ELSE <<>>),
              plainAdjacentLoop(pts, featureIndex, text, i + 1))

RECURSIVE plainCoordinatesLoop(_, _, _)
plainCoordinatesLoop(pts, featureIndex, pointIndex) ==
    IF pointIndex >= Len(pts) THEN Ok(<<>>)
    ELSE Then(validateCoordinate(pts[pointIndex + 1], featureIndex, pointIndex),
              plainCoordinatesLoop(pts, featureIndex, pointIndex + 1))

\* validateRing tests the closure first and has no Array.isArray test: on a
\* ring that is no array, or is empty, ring[0] is undefined and pointsEqual
\* throws on its .length, as it does on a null element
validateRing(r, featureIndex) ==
    IF r.k # "arr" \/ Len(r.pts) = 0 THEN Thrown(<<>>)
    ELSE IF pointsEqualThrows(r.pts[1], r.pts[Len(r.pts)]) THEN Thrown(<<>>)
    ELSE
      Then(Ok(IF ~plainPointsEqual(r.pts[1], r.pts[Len(r.pts)])
              THEN <<ErrorCall(FMsg(featureIndex,
                        "Ring must be closed (first/last points identical)"))>>
              ELSE <<>>),
      IF Len(r.pts) < 4
      THEN Ok(<<ErrorCall(FMsg(featureIndex, "Ring must have at least 4 points"))>>)
      ELSE
      Then(plainAdjacentLoop(r.pts, featureIndex,
                             "Duplicate consecutive points at", 1),
      Then(plainAdjacentLoop(r.pts, featureIndex,
                             "Zero-length edge at points", 1),
      Then(plainCoordinatesLoop(r.pts, featureIndex, 0),
           Ok([k \in 1..Len(checkSelfIntersections(r.pts, featureIndex,
                                                   FreshPlainResults).errors) |->
                 ErrorCall(checkSelfIntersections(r.pts, featureIndex,
                                                  FreshPlainResults).errors[k])]
              \o checkForSpikes(r.pts, featureIndex, 1)
              \o checkExcessiveStraightLines(r.pts, featureIndex))))))

validatePolygonCoordinates(coordinates, featureIndex) ==
    IF Len(coordinates.rings) > 1
    THEN Ok(<<ErrorCall(FMsg(featureIndex, "Interior rings (holes) are not allowed"))>>)
    ELSE IF Len(coordinates.rings) = 0
    THEN Ok(<<ErrorCall(FMsg(featureIndex, "Polygon must have an exterior ring"))>>)
    ELSE validateRing(coordinates.rings[1], featureIndex)

validateGeometry(geometry, featureIndex) ==
    IF geometry.type = Undefined \/ geometry.type \notin validTypes
    THEN Ok(<<ErrorCall(FMsg(featureIndex, "Invalid geometry type"))>>)
    ELSE IF geometry.type # "Polygon"
    THEN Ok(<<ErrorCall(FMsg(featureIndex, "Only Polygon geometries are supported"))>>)
    ELSE IF geometry.coordinates.k # "arr"
    THEN Ok(<<ErrorCall(FMsg(featureIndex, "Coordinates must be an array"))>>)
    ELSE validatePolygonCoordinates(geometry.coordinates, featureIndex)

\* requiredProps.forEach(...) of validateFeature, from the n-th name on
RECURSIVE plainRequiredPropsLoop(_, _, _)
plainRequiredPropsLoop(feature, featureIndex, n) ==
    IF n > Len(requiredProps) THEN <<>>
    ELSE (IF feature.properties.k = "null"
             \/ requiredProps[n] \notin feature.properties.keys
          THEN <<ErrorCall(Msg(featureIndex, -1, "Missing required property",
                               requiredProps[n], <<>>))>>
          ELSE <<>>)
         \o plainRequiredPropsLoop(feature, featureIndex, n + 1)

\* feature.type of a null feature and "area" in null are TypeErrors here too;
\* the geometry test is !feature.geometry && feature.geometry !== null
validateFeature(feature, featureIndex) ==
    IF feature.k = "null" THEN Thrown(<<>>)
    ELSE IF feature.type # "Feature"
    THEN Ok(<<ErrorCall(FMsg(featureIndex, "Type must be 'Feature'"))>>)
    ELSE IF feature.properties.k \in {"absent", "prim"}
    THEN Ok(<<ErrorCall(FMsg(featureIndex,
                             "'properties' must be an object or null"))>>)
    ELSE
      Then(Ok(plainRequiredPropsLoop(feature, featureIndex, 1)),
      Then(IF feature.properties.k = "null" THEN Thrown(<<>>)
           ELSE IF "area" \in feature.properties.keys
                   /\ ~feature.properties.areaIsNumber
           THEN Ok(<<ErrorCall(FMsg(featureIndex,
                                    "'area' property must be a number"))>>)
           ELSE Ok(<<>>),
           IF feature.geometry.k = "absent"
           THEN Ok(<<ErrorCall(FMsg(featureIndex, "Missing 'geometry' property"))>>)
           ELSE IF feature.geometry.k = "null" THEN Ok(<<>>)
           ELSE validateGeometry(feature.geometry, featureIndex)))

\* geojson.features.forEach(validateFeature), from index i on
RECURSIVE plainFeaturesLoop(_, _)
plainFeaturesLoop(fs, i) ==
    IF i >= Len(fs) THEN Ok(<<>>)
    ELSE Then(validateFeature(fs[i + 1], i), plainFeaturesLoop(fs, i + 1))

validateGeoJSON(geojson) ==
    IF geojson.k # "obj"
    THEN Ok(<<ErrorCall(FMsg(-1, "GeoJSON must be a valid object"))>>)
    ELSE IF geojson.type # "FeatureCollection"
    THEN Ok(<<ErrorCall(FMsg(-1, "Root type must be 'FeatureCollection'"))>>)
    ELSE IF geojson.features.k # "arr" \/ Len(geojson.features.fs) = 0
    THEN Ok(<<ErrorCall(FMsg(-1, "'features' must be a non-empty array"))>>)
    ELSE plainFeaturesLoop(geojson.features.fs, 0)

\* the plain accumulator after the given addError calls
RECURSIVE ApplyPlainCalls(_, _)
ApplyPlainCalls(res, calls) ==
    IF calls = <<>> THEN res
    ELSE ApplyPlainCalls(plainAddError(res, Head(calls).message), Tail(calls))

(***************************************************************************)
(* The entry points as functions of the document.                          *)
(***************************************************************************)
\* the accumulator after the given calls
RECURSIVE ApplyCalls(_, _)
ApplyCalls(res, calls) ==
    IF calls = <<>> THEN res
    ELSE ApplyCalls(IF Head(calls).fn = "addStep"
                    THEN addStep(res, Head(calls).rule, Head(calls).passed,
                                 Head(calls).message)
                    ELSE addError(res, Head(calls).message),
                    Tail(calls))

PlotEntry(feature, featureIndex, res) ==
    [plotId |-> plotIdOf(feature, featureIndex),
     farmer |-> farmerOf(feature),
     isValid |-> res.isValid,
     errors |-> res.errors,
     steps |-> res.steps]

\* geojson.features.map(...), from index i on: the entries, or a TypeError
RECURSIVE mapFeatures(_, _)
mapFeatures(fs, i) ==
    IF i >= Len(fs) THEN [threw |-> FALSE, plots |-> <<>>]
    ELSE LET t == validateFeatureWithSteps(fs[i + 1], i)
             rest == mapFeatures(fs, i + 1)
         IN IF t.threw \/ rest.threw THEN [threw |-> TRUE, plots |-> <<>>]
            ELSE [threw |-> FALSE,
                  plots |-> <<PlotEntry(fs[i + 1], i,
                                        ApplyCalls(FreshResults, t.ops))>>
                            \o rest.plots]

validateAllPlotsWithSteps(geojson) ==
    IF rejectsRoot(geojson) THEN [threw |-> FALSE, plots |-> <<>>]
    ELSE mapFeatures(geojson.features.fs, 0)

(***************************************************************************)
(* Inputs.                                                                 *)
(***************************************************************************)
MaxRingLen == 5      \* positions per ring
MaxFeatures == 3     \* features per document
GridMax == 2         \* the ring-level checks take rings on {0,1} x 0..GridMax

SeqsUpTo(S, n) == UNION {[1..m -> S] : m \in 0..n}

\* the empty ring and every ring of up to MaxRingLen positions on the corners
\* of the unit square that starts at [0,0]
SquareCorners == {P(0, 0), P(0, 1), P(1, 1), P(1, 0)}
CornerRings ==
    {<<>>} \cup {<<P(0, 0)>> \o t : t \in SeqsUpTo(SquareCorners, MaxRingLen - 1)}

Rectangle == <<P(0, 0), P(0, 1), P(1, 1), P(1, 0), P(0, 0)>>
Bowtie == <<P(0, 0), P(1, 1), P(0, 1), P(1, 0), P(0, 0)>>

\* the closed axis-aligned 5-position rings with corners on XS x YS, starting
\* along the latitude axis (RectLat) or along the longitude axis (RectLon)
XS == {N(-180), N(0), Num(0, 4), N(1), N(180)}
YS == {N(-90), N(0), N(1), Num(1, -4), N(90)}
RectLat(x0, y0, x1, y1) ==
    <<Position(<<x0, y0>>), Position(<<x0, y1>>), Position(<<x1, y1>>),
      Position(<<x1, y0>>), Position(<<x0, y0>>)>>
RectLon(x0, y0, x1, y1) ==
    <<Position(<<x0, y0>>), Position(<<x1, y0>>), Position(<<x1, y1>>),
      Position(<<x0, y1>>), Position(<<x0, y0>>)>>
RectangleRings ==
    {RectLat(x0, y0, x1, y1) : x0 \in XS, y0 \in YS, x1 \in XS, y1 \in YS}
    \cup {RectLon(x0, y0, x1, y1) : x0 \in XS, y0 \in YS, x1 \in XS, y1 \in YS}

\* positions that are malformed, out of range, or off the 10^-6 grid
SpecialPositions ==
    {NullPosition, Position(<<N(0)>>), Position(<<N(0), N(0), N(0), N(0)>>),
     Position(<<N(0), N(0), N(7)>>), Position(<<StrElem, N(0)>>),
     Position(<<N(0), StrElem>>), P(181, 0), P(-181, 91), P(180, -90),
     Position(<<Num(0, 4), N(0)>>), Position(<<Num(0, 5), N(0)>>),
     Position(<<Num(180, 1), Num(-90, -1)>>)}

ReplaceAt(sq, i, x) == [sq EXCEPT ![i] = x]

SpecialRings ==
    {ReplaceAt(Rectangle, i, sp) : i \in 1..Len(Rectangle), sp \in SpecialPositions}

\* rings below the minimum size whose positions are malformed, and triangles
\* with a 1.9 degree angle at ring index 1 (SliverTriangle) or at the first /
\* last position (SeamSliverTriangle)
ShortSpecialRings ==
    {<<NullPosition>>, <<NullPosition, P(0, 0), P(0, 0)>>,
     <<Position(<<StrElem, N(0)>>), P(181, 0), Position(<<N(0)>>)>>}
SliverTriangle == <<P(30, 0), P(0, 0), P(30, 1), P(30, 0)>>
SeamSliverTriangle == <<P(0, 0), P(30, 0), P(30, 1), P(0, 0)>>

GoodProperties == Properties({"plot_ID", "farmer_name", "area"}, "A1", "J. Doe", TRUE)

PropertiesVariants ==
    {AbsentProperties, PrimProperties, NullProperties}
    \cup {Properties(ks, "A1", "J. Doe", n) :
            ks \in SUBSET {"plot_ID", "farmer_name", "area"}, n \in BOOLEAN}
    \cup {Properties({"plot_ID", "farmer_name", "area"}, "", "", TRUE)}

GeometryVariants ==
    {AbsentGeometry, NullGeometry, PrimGeometry}
    \cup {Geometry(t, c) :
            t \in {Undefined, "Circle", "Point", "MultiPolygon", "Polygon"},
            c \in {NonArrayCoordinates, Coordinates(<<>>),
                   Coordinates(<<NonArrayRing>>),
                   Coordinates(<<RingOf(Rectangle)>>),
                   Coordinates(<<RingOf(Rectangle), RingOf(Rectangle)>>),
                   Coordinates(<<RingOf(<<P(0, 0)>>), RingOf(Rectangle)>>)}}

StructuralFeatures ==
    {NullFeature, PrimFeature}
    \cup {Feature(t, pr, g) : t \in {"Feature", "Other", Undefined},
                              pr \in PropertiesVariants,
                              g \in GeometryVariants}

RingFeatures ==
    {Feature("Feature", GoodProperties, Polygon(pts)) :
        pts \in CornerRings \cup SpecialRings \cup RectangleRings
                \cup ShortSpecialRings
                \cup {SliverTriangle, SeamSliverTriangle}}
    \cup {Feature("Feature", pr, Polygon(pts)) :
            pr \in {Properties({"plot_ID", "farmer_name", "area"}, "", "", TRUE)},
            pts \in {Rectangle, Bowtie}}

GoodFeature == Feature("Feature", GoodProperties, Polygon(Rectangle))

\* a feature of every recognized geometry kind, with and without coordinates
KindFeatures ==
    {Feature("Feature", GoodProperties, Geometry(t, c)) :
        t \in validTypes,
        c \in {NonArrayCoordinates, Coordinates(<<RingOf(Rectangle)>>)}}

\* the features combined into documents of several features
CoreFeatures ==
    {GoodFeature,
     Feature("Feature", GoodProperties, Polygon(Bowtie)),
     Feature("Other", GoodProperties, Polygon(Rectangle)),
     Feature("Feature", NullProperties, Polygon(Rectangle)),
     NullFeature}

FeatureArrays ==
    {NonArrayFeatures}
    \cup {Features(<<f>>) : f \in StructuralFeatures \cup RingFeatures
                                     \cup KindFeatures}
    \cup {Features(fs) : fs \in SeqsUpTo(CoreFeatures, MaxFeatures)}

RootTypes == {"FeatureCollection", "Feature", Undefined}

Documents ==
    {NonObjectDocument}
    \cup {Document(t, fa) : t \in RootTypes, fa \in FeatureArrays}

\* the rings handed to the ring-level checks: 4 .. MaxRingLen positions
GridPoints == {P(x, y) : x \in 0..1, y \in 0..GridMax}
RingInputs == UNION {[1..m -> GridPoints] : m \in 4..MaxRingLen}

\* The rings handed to the Ring Rule: the corner rings of 4 .. MaxRingLen
\* positions; closed rings over four points that see one another from [0,0]
\* under 1.9, 3.8 and 5.7 degrees; and a triangle and the rectangle with their
\* first and last position replaced by positions that agree or differ within
\* and beyond the 6th decimal, in length or in type.
LongCornerRings == {r \in CornerRings : Len(r) >= 4}
SliverPoints == {P(0, 0), P(30, 0), P(30, 1), P(30, 3)}
SliverRings ==
    UNION {{Append(t, t[1]) : t \in [1..(m - 1) -> SliverPoints]} :
             m \in 4..MaxRingLen}
TolerancePositions ==
    {P(0, 0), Position(<<Num(0, 4), N(0)>>), Position(<<Num(0, 5), N(0)>>),
     Position(<<Num(0, -5), N(0)>>), Position(<<Num(0, -6), N(0)>>),
     Position(<<N(0), Num(0, 14)>>), Position(<<N(0), Num(0, 15)>>),
     Position(<<N(0), N(0), N(7)>>), Position(<<N(0), N(0), Num(7, 4)>>),
     Position(<<StrElem, N(0)>>), Position(<<N(0)>>)}
Triangle == <<P(0, 0), P(0, 1), P(1, 1), P(0, 0)>>
ToleranceRings ==
    {ReplaceAt(ReplaceAt(base, 1, a), Len(base), b) :
        base \in {Triangle, Rectangle},
        a \in TolerancePositions, b \in TolerancePositions}
\* the rectangle with its second and third position replaced in the same way
AdjacentToleranceRings ==
    {ReplaceAt(ReplaceAt(Rectangle, 2, a), 3, b) :
        a \in TolerancePositions, b \in TolerancePositions}
RuleRings ==
    LongCornerRings \cup SliverRings \cup ToleranceRings
    \cup AdjacentToleranceRings

(***************************************************************************)
(* The state machine.                                                      *)
(***************************************************************************)
NoRing == <<>>

Init ==
    /\ pc = "idle"
    /\ entry = "none"
    /\ input = NonObjectDocument
    /\ results = FreshResults
    /\ pending = <<>>
    /\ willThrow = FALSE
    /\ index = 0
    /\ plots = <<>>
    /\ ring = NoRing
    /\ plainResults = FreshPlainResults

\* validateGeoJSONWithSteps(geojson) is entered
CallValidate ==
    /\ pc = "idle"
    /\ \E d \in Documents :
        /\ input' = d
        /\ pending' = validateGeoJSONWithSteps(d).ops
        /\ willThrow' = validateGeoJSONWithSteps(d).threw
    /\ entry' = "validate"
    /\ results' = FreshResults
    /\ pc' = "running"
    /\ UNCHANGED <<index, plots, ring, plainResults>>

\* validateAllPlotsWithSteps(geojson) is entered: [] for a rejected root,
\* otherwise features.map starts
CallValidateAll ==
    /\ pc = "idle"
    /\ \E d \in Documents :
        /\ input' = d
        /\ pc' = IF rejectsRoot(d) THEN "returned" ELSE "mapping"
    /\ entry' = "validateAll"
    /\ plots' = <<>>
    /\ index' = 0
    /\ UNCHANGED <<results, pending, willThrow, ring, plainResults>>

\* the map callback is entered for the next feature, with a fresh stepsResult
MapFeature ==
    /\ pc = "mapping"
    /\ index < Len(input.features.fs)
    /\ results' = FreshResults
    /\ pending' = validateFeatureWithSteps(input.features.fs[index + 1], index).ops
    /\ willThrow' = validateFeatureWithSteps(input.features.fs[index + 1], index).threw
    /\ pc' = "running"
    /\ UNCHANGED <<entry, input, index, plots, ring, plainResults>>

AddStep ==
    /\ pc = "running"
    /\ pending # <<>>
    /\ Head(pending).fn = "addStep"
    /\ results' = addStep(results, Head(pending).rule, Head(pending).passed,
                          Head(pending).message)
    /\ pending' = Tail(pending)
    /\ UNCHANGED <<pc, entry, input, willThrow, index, plots, ring, plainResults>>

AddError ==
    /\ pc = "running"
    /\ pending # <<>>
    /\ Head(pending).fn = "addError"
    /\ results' = addError(results, Head(pending).message)
    /\ pending' = Tail(pending)
    /\ UNCHANGED <<pc, entry, input, willThrow, index, plots, ring, plainResults>>

\* validateGeoJSONWithSteps returns results
Return ==
    /\ pc = "running"
    /\ entry = "validate"
    /\ pending = <<>>
    /\ ~willThrow
    /\ pc' = "returned"
    /\ UNCHANGED <<entry, input, results, pending, willThrow, index, plots, ring, plainResults>>

\* the map callback returns the PerPlot entry of the feature
ReturnPlot ==
    /\ pc = "running"
    /\ entry = "validateAll"
    /\ pending = <<>>
    /\ ~willThrow
    /\ plots' = Append(plots, PlotEntry(input.features.fs[index + 1], index,
                                        results))
    /\ index' = index + 1
    /\ pc' = "mapping"
    /\ UNCHANGED <<entry, input, results, pending, willThrow, ring, plainResults>>

\* features.map is done: validateAllPlotsWithSteps returns plots
ReturnAll ==
    /\ pc = "mapping"
    /\ index = Len(input.features.fs)
    /\ pc' = "returned"
    /\ UNCHANGED <<entry, input, results, pending, willThrow, index, plots, ring, plainResults>>

\* a TypeError leaves the entry point: nothing is returned
Throw ==
    /\ pc = "running"
    /\ pending = <<>>
    /\ willThrow
    /\ pc' = "threw"
    /\ UNCHANGED <<entry, input, results, pending, willThrow, index, plots, ring, plainResults>>

\* the document validateGeoJSONWithSteps returned a result for is handed to
\* validateGeoJSON: it returns its result, or a TypeError leaves it
CallValidatePlain ==
    /\ pc = "returned"
    /\ entry = "validate"
    /\ plainResults' = ApplyPlainCalls(FreshPlainResults,
                                       validateGeoJSON(input).ops)
    /\ pc' = IF validateGeoJSON(input).threw THEN "plainThrew" ELSE "plainReturned"
    /\ UNCHANGED <<entry, input, results, pending, willThrow, index, plots, ring>>

Next ==
    \/ CallValidate
    \/ CallValidateAll
    \/ MapFeature
    \/ AddStep
    \/ AddError
    \/ Return
    \/ ReturnPlot
    \/ ReturnAll
    \/ Throw
    \/ CallValidatePlain

Spec == Init /\ [][Next]_vars

(***************************************************************************)
(* The ring-level checks as functions of a ring: the ring is drawn at      *)
(* Init and a check is applied to it.                                      *)
(***************************************************************************)
InitRing ==
    /\ pc = "idle"
    /\ entry = "ring"
    /\ input = NonObjectDocument
    /\ results = FreshResults
    /\ pending = <<>>
    /\ willThrow = FALSE
    /\ index = 0
    /\ plots = <<>>
    /\ ring \in RingInputs
    /\ plainResults = FreshPlainResults

\* checkSelfIntersectionsWithSteps(ring, 0, results) on fresh results
CheckSelfIntersections ==
    /\ pc = "idle"
    /\ entry = "ring"
    /\ results' = ApplyCalls(FreshResults,
                             checkSelfIntersectionsWithSteps(ring, 0).ops)
    /\ pc' = "checked"
    /\ UNCHANGED <<entry, input, pending, willThrow, index, plots, ring, plainResults>>

NextRing == CheckSelfIntersections

SpecRing == InitRing /\ [][NextRing]_vars

(***************************************************************************)
(* The Ring Rule as a function of a ring: the ring is drawn at Init, may   *)
(* get a duplicate of its last position appended, and is handed to         *)
(* validateRingWithSteps, to the plain engine's checkSelfIntersections and *)
(* to its validateRing.                                                    *)
(***************************************************************************)
InitRule ==
    /\ pc = "idle"
    /\ entry = "rule"
    /\ input = NonObjectDocument
    /\ results = FreshResults
    /\ pending = <<>>
    /\ willThrow = FALSE
    /\ index = 0
    /\ plots = <<>>
    /\ ring \in RuleRings
    /\ plainResults = FreshPlainResults

\* the caller pushes a copy of the last position; index keeps the old length
AppendDuplicate ==
    /\ pc = "idle"
    /\ entry = "rule"
    /\ index = 0
    /\ ring' = Append(ring, ring[Len(ring)])
    /\ index' = Len(ring)
    /\ UNCHANGED <<pc, entry, input, results, pending, willThrow, plots,
                   plainResults>>

\* validateRingWithSteps(ring, 0, 0, results) on fresh results
ValidateRing ==
    /\ pc = "idle"
    /\ entry = "rule"
    /\ results' = ApplyCalls(FreshResults,
                             validateRingWithSteps(RingOf(ring), 0).ops)
    /\ willThrow' = validateRingWithSteps(RingOf(ring), 0).threw
    /\ pc' = "validated"
    /\ UNCHANGED <<entry, input, pending, index, plots, ring, plainResults>>

\* checkSelfIntersections(ring, 0, results) of the plain engine on fresh results
PlainCheckSelfIntersections ==
    /\ pc = "validated"
    /\ entry = "rule"
    /\ plainResults' = checkSelfIntersections(ring, 0, FreshPlainResults)
    /\ pc' = "compared"
    /\ UNCHANGED <<entry, input, results, pending, willThrow, index, plots, ring>>

\* validateRing(ring, 0, 0, results) of the plain engine on fresh results
PlainValidateRing ==
    /\ pc = "compared"
    /\ entry = "rule"
    /\ plainResults' = ApplyPlainCalls(FreshPlainResults,
                                       validateRing(RingOf(ring), 0).ops)
    /\ pc' = IF validateRing(RingOf(ring), 0).threw
             THEN "plainThrew" ELSE "plainValidated"
    /\ UNCHANGED <<entry, input, results, pending, willThrow, index, plots, ring>>

NextRule ==
    \/ AppendDuplicate
    \/ ValidateRing
    \/ PlainCheckSelfIntersections
    \/ PlainValidateRing

SpecRule == InitRule /\ [][NextRule]_vars

(***************************************************************************)
(* Properties.                                                             *)
(***************************************************************************)
HasFailingStep(steps) == \E i \in 1..Len(steps) : ~steps[i].passed

IsPrefix(s, t) == Len(s) <= Len(t) /\ \A i \in 1..Len(s) : s[i] = t[i]

ValidateReturned == entry = "validate" /\ pc = "returned"
ValidateEnded == entry = "validate" /\ pc \in {"returned", "threw"}
ValidateAllEnded == entry = "validateAll" /\ pc \in {"returned", "threw"}

\* C1: validateGeoJSONWithSteps and validateAllPlotsWithSteps never throw:
\* no call of either entry point ends in a TypeError, whatever the input.
C1_NeverThrows == pc # "threw"

\* C2: in the result returned by validateGeoJSONWithSteps, and in every
\* PerPlot entry of validateAllPlotsWithSteps, isValid is true if and only if
\* the steps hold no step with passed = false.
C2_IsValidIffNoFailingStep ==
    /\ ValidateReturned => (results.isValid <=> ~HasFailingStep(results.steps))
    /\ \A i \in 1..Len(plots) :
          plots[i].isValid <=> ~HasFailingStep(plots[i].steps)

\* a validation returned an invalid result that holds passing steps, a failing
\* step and more than one feature's steps
C2_Witness ==
    /\ ValidateReturned
    /\ ~results.isValid
    /\ HasFailingStep(results.steps)
    /\ results.steps[Len(results.steps)].passed
    /\ Len(input.features.fs) > 1

\* C3: while one validation call runs, isValid never goes back from false to
\* true, and steps and errors only grow by appending.
C3_Monotonic ==
    [][pc = "running" =>
          /\ (results'.isValid => results.isValid)
          /\ IsPrefix(results.steps, results'.steps)
          /\ IsPrefix(results.errors, results'.errors)]_vars

\* the accumulator is already invalid and a later feature's passing step has
\* been recorded after the failure
C3_Witness ==
    /\ pc = "running"
    /\ entry = "validate"
    /\ ~results.isValid
    /\ \E i, j \in 1..Len(results.steps) :
          /\ i < j
          /\ ~results.steps[i].passed
          /\ results.steps[j].passed
          /\ results.steps[i].rule.f < results.steps[j].rule.f

NotFeatureCollection(d) == d.k # "obj" \/ d.type # "FeatureCollection"

\* C4: for every document whose type is not "FeatureCollection", whatever its
\* features, validateGeoJSONWithSteps returns isValid = false with exactly one
\* step, the failing "Root type" step, and no other check runs.
C4_WrongRootType ==
    (entry = "validate" /\ NotFeatureCollection(input)) =>
        /\ pc # "threw"
        /\ Len(results.steps) <= 1
        /\ pc = "returned" =>
              /\ ~results.isValid
              /\ Len(results.steps) = 1
              /\ results.steps[1].rule = RootRule
              /\ ~results.steps[1].passed
              /\ Len(results.errors) = 1

\* a document of type "Feature" carrying valid features was rejected
C4_Witness ==
    /\ ValidateReturned
    /\ input.k = "obj"
    /\ input.type = "Feature"
    /\ input.features = Features(<<GoodFeature, GoodFeature>>)
    /\ Len(results.steps) = 1

BadFeaturesArray(d) ==
    /\ d.k = "obj"
    /\ d.type = "FeatureCollection"
    /\ (d.features.k # "arr" \/ Len(d.features.fs) = 0)

\* C5: for every FeatureCollection whose features is missing, not an array or
\* empty, validateGeoJSONWithSteps returns isValid = false with exactly one
\* failing step, "Features array", right after the passing "Root type" step,
\* and records no feature-level step.
C5_BadFeaturesArray ==
    (entry = "validate" /\ BadFeaturesArray(input)) =>
        /\ pc # "threw"
        /\ Len(results.steps) <= 2
        /\ \A i \in 1..Len(results.steps) : results.steps[i].rule.f = -1
        /\ pc = "returned" =>
              /\ ~results.isValid
              /\ Len(results.steps) = 2
              /\ results.steps[1].passed
              /\ results.steps[2].rule = FeaturesRule
              /\ ~results.steps[2].passed
              /\ Len(results.errors) = 1

\* a FeatureCollection with an empty features array was rejected
C5_Witness ==
    /\ ValidateReturned
    /\ input.k = "obj"
    /\ input.type = "FeatureCollection"
    /\ input.features = Features(<<>>)
    /\ ~results.isValid

NonConformingRoot(d) ==
    \/ d.k # "obj"
    \/ d.type # "FeatureCollection"
    \/ d.features.k # "arr"
    \/ Len(d.features.fs) = 0

\* the documents of the model with feature j replaced by g
ReplaceFeature(d, j, g) ==
    [d EXCEPT !.features = Features(ReplaceAt(d.features.fs, j, g))]

\* C6: for a FeatureCollection with n features validateAllPlotsWithSteps
\* returns exactly n entries, and entry i stays the same, and is still
\* produced, when any other feature j is replaced by any value.
C6_PerPlotIndependent ==
    (ValidateAllEnded /\ ~NonConformingRoot(input)) =>
        /\ pc = "returned"
        /\ Len(plots) = Len(input.features.fs)
        /\ \A i, j \in 1..Len(input.features.fs) :
             \A g \in CoreFeatures \cup {PrimFeature} :
                i # j =>
                  LET alt == validateAllPlotsWithSteps(ReplaceFeature(input, j, g))
                  IN  /\ ~alt.threw
                      /\ Len(alt.plots) = Len(input.features.fs)
                      /\ alt.plots[i] = plots[i]

\* validateGeoJSONWithSteps records the passing "Root type" step and the
\* passing "Features array" step on d
PassesRootSteps(d) ==
    LET calls == validateGeoJSONWithSteps(d).ops
    IN  /\ \E i \in 1..Len(calls) :
              calls[i].fn = "addStep" /\ calls[i].rule = RootRule /\ calls[i].passed
        /\ \E i \in 1..Len(calls) :
              calls[i].fn = "addStep" /\ calls[i].rule = FeaturesRule /\ calls[i].passed

\* C7: validateAllPlotsWithSteps returns the empty sequence for every
\* non-conforming root document, and returns a non-empty sequence exactly when
\* validateGeoJSONWithSteps passes the "Root type" and "Features array" steps.
C7_EmptyIffNonConforming ==
    ValidateAllEnded =>
        /\ NonConformingRoot(input) => (pc = "returned" /\ plots = <<>>)
        /\ (pc = "returned" /\ plots # <<>>) <=> PassesRootSteps(input)

\* lo <= val <= hi for a JSON number
NumberWithin(val, lo, hi) ==
    /\ val.k = "num"
    /\ (val.v > lo \/ (val.v = lo /\ val.e >= 0))
    /\ (val.v < hi \/ (val.v = hi /\ val.e <= 0))

\* a closed axis-aligned rectangle of 5 in-range [lon, lat] positions, no two
\* consecutive ones equal to 6 decimals
IsRectangleRing(pts) ==
    /\ Len(pts) = 5
    /\ \A i \in 1..5 :
          /\ pts[i].k = "arr"
          /\ Len(pts[i].c) = 2
          /\ NumberWithin(pts[i].c[1], -180, 180)
          /\ NumberWithin(pts[i].c[2], -90, 90)
    /\ pts[5] = pts[1]
    /\ \/ pts = RectLat(pts[1].c[1], pts[1].c[2], pts[3].c[1], pts[3].c[2])
       \/ pts = RectLon(pts[1].c[1], pts[1].c[2], pts[3].c[1], pts[3].c[2])
    /\ \A i \in 1..4 : roundCoord(pts[i]) # roundCoord(pts[i + 1])

\* type "Feature", properties with plot_ID, farmer_name and a numeric area
HasValidProperties(feature) ==
    /\ feature.k = "obj"
    /\ feature.type = "Feature"
    /\ feature.properties.k = "obj"
    /\ {"plot_ID", "farmer_name", "area"} \subseteq feature.properties.keys
    /\ feature.properties.areaIsNumber

\* a FeatureCollection of one such feature with a Polygon of the one ring pts
IsSinglePolygonDocument(d) ==
    /\ d.k = "obj"
    /\ d.type = "FeatureCollection"
    /\ d.features.k = "arr"
    /\ Len(d.features.fs) = 1
    /\ HasValidProperties(d.features.fs[1])
    /\ d.features.fs[1].geometry.k = "obj"
    /\ d.features.fs[1].geometry.type = "Polygon"
    /\ d.features.fs[1].geometry.coordinates.k = "arr"
    /\ Len(d.features.fs[1].geometry.coordinates.rings) = 1
    /\ d.features.fs[1].geometry.coordinates.rings[1].k = "arr"

OnlyRing(d) == d.features.fs[1].geometry.coordinates.rings[1].pts

\* C8: a single-feature document whose feature has valid properties and a
\* Polygon of one closed axis-aligned rectangle ring validates with
\* isValid = true and no errors.
C8_RectangleIsValid ==
    (ValidateEnded /\ IsSinglePolygonDocument(input)
       /\ IsRectangleRing(OnlyRing(input))) =>
        /\ pc = "returned"
        /\ results.isValid
        /\ results.errors = <<>>

\* the rectangle spanning the whole coordinate range was validated
C8_Witness ==
    /\ ValidateReturned
    /\ IsSinglePolygonDocument(input)
    /\ IsRectangleRing(OnlyRing(input))
    /\ OnlyRing(input) = RectLat(N(-180), N(-90), N(180), N(90))
    /\ results.isValid

\* C9: a document whose only Polygon ring is the bowtie
\* [[0,0],[1,1],[0,1],[1,0],[0,0]] validates with isValid = false and a
\* "Self-intersection detected" error.
C9_BowtieIsInvalid ==
    (ValidateEnded /\ IsSinglePolygonDocument(input)
       /\ OnlyRing(input) = Bowtie) =>
        /\ pc = "returned"
        /\ ~results.isValid
        /\ \E i \in 1..Len(results.errors) :
              results.errors[i] = FMsg(0, "Self-intersection detected")

\* the bowtie document was validated
C9_Witness ==
    /\ ValidateReturned
    /\ IsSinglePolygonDocument(input)
    /\ OnlyRing(input) = Bowtie
    /\ ~results.isValid

Reverse(sq) == [i \in 1..Len(sq) |-> sq[Len(sq) + 1 - i]]

\* C10: the self-intersection check fails on a ring of at least 4 positions
\* if and only if it fails on the reversed ring.
C10_ReversalInvariant ==
    (entry = "ring" /\ pc = "checked") =>
        (HasFailingStep(results.steps)
           <=> HasFailingStep(
                 ApplyCalls(FreshResults,
                            checkSelfIntersectionsWithSteps(Reverse(ring), 0).ops).steps))

\* the steps recorded for feature f (0-based), in order
StepsOf(steps, f) == SelectSeq(steps, LAMBDA st : st.rule.f = f)

PropertyRuleNames == {"property plot_ID", "property farmer_name", "property area"}
CoordinateRuleNames == {"format", "longitude", "latitude"}
RingCheckNames ==
    {"ring closure", "duplicate points", "zero-length edge", "self-intersection",
     "spike vertex", "straight lines"}

\* a feature of type "Feature" with an object as properties and a Polygon
\* geometry whose coordinates is an array
HasPolygon(feature) ==
    /\ feature.k = "obj"
    /\ feature.type = "Feature"
    /\ feature.properties.k = "obj"
    /\ feature.geometry.k = "obj"
    /\ feature.geometry.type = "Polygon"
    /\ feature.geometry.coordinates.k = "arr"

\* ... whose only ring is an array of fewer than 4 positions
HasShortRing(feature) ==
    /\ HasPolygon(feature)
    /\ Len(feature.geometry.coordinates.rings) = 1
    /\ feature.geometry.coordinates.rings[1].k = "arr"
    /\ Len(feature.geometry.coordinates.rings[1].pts) < 4

\* the steps st of one feature end in the failing step `name`, and no other
\* step fails except property steps
EndsInFailing(st, name) ==
    /\ st # <<>>
    /\ st[Len(st)].rule.name = name
    /\ ~st[Len(st)].passed
    /\ \A k \in 1..(Len(st) - 1) :
          ~st[k].passed => st[k].rule.name \in PropertyRuleNames

NoStepNamed(st, names) == \A k \in 1..Len(st) : st[k].rule.name \notin names

\* C11: for every Polygon whose exterior ring has fewer than 4 positions the
\* feature's result is invalid, its failing step is "ring points", and no
\* closure, duplicate, zero-length, coordinate, self-intersection, spike or
\* straight-lines step is recorded for that feature.
C11_ShortRing ==
    /\ (ValidateReturned /\ ~NonConformingRoot(input)) =>
          \A i \in 1..Len(input.features.fs) :
             HasShortRing(input.features.fs[i]) =>
                /\ NoStepNamed(StepsOf(results.steps, i - 1),
                               RingCheckNames \cup CoordinateRuleNames)
                /\ ~results.isValid
                /\ EndsInFailing(StepsOf(results.steps, i - 1), "ring points")
    /\ (entry = "validateAll" /\ pc = "returned") =>
          \A i \in 1..Len(plots) :
             HasShortRing(input.features.fs[i]) =>
                /\ NoStepNamed(plots[i].steps,
                               RingCheckNames \cup CoordinateRuleNames)
                /\ ~plots[i].isValid
                /\ EndsInFailing(plots[i].steps, "ring points")

\* a Polygon whose ring is three positions, the first of them null, was
\* validated and rejected
C11_Witness ==
    /\ ValidateReturned
    /\ ~NonConformingRoot(input)
    /\ Len(input.features.fs) = 1
    /\ HasShortRing(input.features.fs[1])
    /\ OnlyRing(input) = <<NullPosition, P(0, 0), P(0, 0)>>
    /\ ~results.isValid

\* ... whose coordinates hold more than one ring
HasInteriorRing(feature) ==
    /\ HasPolygon(feature)
    /\ Len(feature.geometry.coordinates.rings) > 1

\* the steps st of one feature end in the failing "interior rings" step with
\* the message of the source
RejectsInteriorRings(st, f) ==
    /\ EndsInFailing(st, "interior rings")
    /\ st[Len(st)].message = FMsg(f, "Interior rings (holes) are not allowed")

\* C12: for every Polygon whose coordinates hold more than one ring the
\* failing "interior rings" step with the message "Interior rings (holes) are
\* not allowed" is recorded, the feature's result is invalid, and no ring-level
\* or coordinate-level step is recorded for the feature, whatever the exterior
\* ring is.
C12_InteriorRings ==
    /\ (ValidateReturned /\ ~NonConformingRoot(input)) =>
          \A i \in 1..Len(input.features.fs) :
             HasInteriorRing(input.features.fs[i]) =>
                /\ NoStepNamed(StepsOf(results.steps, i - 1),
                               RingCheckNames \cup CoordinateRuleNames
                                 \cup {"ring array", "ring points"})
                /\ ~results.isValid
                /\ RejectsInteriorRings(StepsOf(results.steps, i - 1), i - 1)
                /\ \E k \in 1..Len(results.errors) :
                      results.errors[k] =
                         FMsg(i - 1, "Interior rings (holes) are not allowed")
    /\ (entry = "validateAll" /\ pc = "returned") =>
          \A i \in 1..Len(plots) :
             HasInteriorRing(input.features.fs[i]) =>
                /\ NoStepNamed(plots[i].steps,
                               RingCheckNames \cup CoordinateRuleNames
                                 \cup {"ring array", "ring points"})
                /\ ~plots[i].isValid
                /\ RejectsInteriorRings(plots[i].steps, i - 1)

\* a Polygon with a one-position exterior ring and a second ring was rejected
\* for its interior ring
C12_Witness ==
    /\ ValidateReturned
    /\ ~NonConformingRoot(input)
    /\ Len(input.features.fs) = 1
    /\ HasInteriorRing(input.features.fs[1])
    /\ input.features.fs[1].geometry.coordinates.rings[1] = RingOf(<<P(0, 0)>>)
    /\ ~results.isValid
    /\ Len(results.steps) > 2

RuleValidated == entry = "rule" /\ pc \in {"validated", "compared"}

\* validateRingWithSteps records no failing step on the ring pts
RingIsValid(pts) ==
    ~HasFailingStep(
        ApplyCalls(FreshResults, validateRingWithSteps(RingOf(pts), 0).ops).steps)

\* the ring before the duplicate was appended
OriginalRing == SubSeq(ring, 1, index)

\* C13: for every valid closed ring, after a duplicate of its last position is
\* appended the closure step still passes and a "Duplicate consecutive points"
\* violation is recorded for the last adjacent pair.
C13_AppendDuplicate ==
    (RuleValidated /\ index > 0 /\ RingIsValid(OriginalRing)) =>
        /\ \E k \in 1..Len(results.steps) :
              results.steps[k].rule.name = "ring closure"
        /\ \A k \in 1..Len(results.steps) :
              results.steps[k].rule.name = "ring closure"
                 => results.steps[k].passed
        /\ \E k \in 1..Len(results.steps) :
              /\ results.steps[k].rule.name = "duplicate points"
              /\ ~results.steps[k].passed
              /\ results.steps[k].message.arg = <<index - 1, index>>
        /\ ~results.isValid

\* the valid rectangle with its last position repeated was validated
C13_Witness ==
    /\ RuleValidated
    /\ index = 5
    /\ OriginalRing = Rectangle
    /\ RingIsValid(OriginalRing)
    /\ Len(ring) = 6
    /\ ~results.isValid

\* the number of failing steps of the rule `name`
FailingCount(steps, name) ==
    Len(SelectSeq(steps, LAMBDA st : st.rule.name = name /\ ~st.passed))
PassingCount(steps, name) ==
    Len(SelectSeq(steps, LAMBDA st : st.rule.name = name /\ st.passed))

\* both edges at the vertex have a length and the angle between them is
\* below 5 degrees
SpikeBetween(p1, p2, p3) ==
    /\ p1 # p2
    /\ p3 # p2
    /\ isSpikeAngle(calculateAngle(p1, p2, p3))

\* some vertex of the ring is a spike: a position between two others, or the
\* position a closed ring starts and ends at
HasSpikeVertex(pts) ==
    \/ \E i \in 2..(Len(pts) - 1) : SpikeBetween(pts[i - 1], pts[i], pts[i + 1])
    \/ /\ pts[1] = pts[Len(pts)]
       /\ SpikeBetween(pts[Len(pts) - 1], pts[1], pts[2])

\* C14: the spike check fails for every ring that has a vertex whose angle
\* between its two incident edges is below 5 degrees, and passes for every
\* ring all of whose vertex angles are at least 5 degrees; a vertex with a
\* zero-length incident edge counts as 180 degrees and is never a spike.
C14_SpikeCheck ==
    RuleValidated =>
        /\ HasSpikeVertex(ring)
              => FailingCount(results.steps, "spike vertex") > 0
        /\ ~HasSpikeVertex(ring)
              => /\ FailingCount(results.steps, "spike vertex") = 0
                 /\ PassingCount(results.steps, "spike vertex") = 1

\* the compared pairs of segments that intersect
CrossingPairs(pts) ==
    {ij \in SegmentPairs(Len(pts)) :
        segmentsIntersect(pts[ij[1] + 1], pts[ij[1] + 2],
                          pts[ij[2] + 1], pts[ij[2] + 2])}

Rounded6(val) ==
    [num |-> val.k = "num",
     units |-> IF val.k = "num" THEN val.v ELSE 0,
     millionths |-> IF val.k = "num" THEN (val.e + 5) \div 10 ELSE 0]

DifferAfterRounding(p, q) ==
    \/ Len(p.c) # Len(q.c)
    \/ \E i \in 1..Len(p.c) : Rounded6(p.c[i]) # Rounded6(q.c[i])

HasProperty(feature, key) ==
    /\ feature.k = "obj"
    /\ feature.properties.k = "obj"
    /\ key \in feature.properties.keys

\* C15: every PerPlot entry carries the feature's plot_ID as plotId and its
\* farmer_name as farmer when the feature has them, and a name derived from
\* the feature's index when it has not, also when properties is null or
\* missing: an entry is returned for every feature.
C15_PlotNames ==
    (ValidateAllEnded /\ ~rejectsRoot(input)) =>
        /\ pc = "returned"
        /\ Len(plots) = Len(input.features.fs)
        /\ \A i \in 1..Len(plots) :
              LET feature == input.features.fs[i]
              IN  /\ HasProperty(feature, "plot_ID")
                        => plots[i].plotId
                             = [name |-> feature.properties.plot_ID, fallback |-> -1]
                  /\ ~HasProperty(feature, "plot_ID")
                        => plots[i].plotId = [name |-> "Feature", fallback |-> i - 1]
                  /\ HasProperty(feature, "farmer_name")
                        => plots[i].farmer = feature.properties.farmer_name
                  /\ ~HasProperty(feature, "farmer_name")
                        => plots[i].farmer # ""

RootPassed ==
    <<[rule |-> RootRule, passed |-> TRUE,
       message |-> FMsg(-1, "Root type is 'FeatureCollection'")],
      [rule |-> FeaturesRule, passed |-> TRUE,
       message |-> FMsg(-1, "'features' is a non-empty array")]>>

RECURSIVE FlattenSteps(_)
FlattenSteps(ps) ==
    IF ps = <<>> THEN <<>> ELSE Head(ps).steps \o FlattenSteps(Tail(ps))

RECURSIVE FlattenErrors(_)
FlattenErrors(ps) ==
    IF ps = <<>> THEN <<>> ELSE Head(ps).errors \o FlattenErrors(Tail(ps))

\* the result res of validateGeoJSONWithSteps is the two passing root steps
\* followed by the PerPlot entries ps laid end to end
IsConcatenation(res, ps) ==
    /\ res.steps = RootPassed \o FlattenSteps(ps)
    /\ res.errors = FlattenErrors(ps)
    /\ res.isValid <=> \A i \in 1..Len(ps) : ps[i].isValid

\* C16: for a conforming root document the steps of validateGeoJSONWithSteps
\* are the passing "Root type" and "Features array" steps followed by the
\* steps validateAllPlotsWithSteps records per feature, in feature order; the
\* errors are the per-feature errors laid end to end, and isValid is true iff
\* every per-feature isValid is. Either entry point ends in a TypeError on
\* exactly the documents on which the other does.
C16_Concatenation ==
    /\ (ValidateEnded /\ ~NonConformingRoot(input)) =>
          LET all == validateAllPlotsWithSteps(input)
          IN  /\ pc = "threw" <=> all.threw
              /\ pc = "returned" =>
                    /\ Len(all.plots) = Len(input.features.fs)
                    /\ IsConcatenation(results, all.plots)
    /\ (ValidateAllEnded /\ ~NonConformingRoot(input)) =>
          LET one == validateGeoJSONWithSteps(input)
          IN  /\ pc = "threw" <=> one.threw
              /\ pc = "returned" =>
                    /\ Len(plots) = Len(input.features.fs)
                    /\ IsConcatenation(ApplyCalls(FreshResults, one.ops), plots)

\* three features were validated, the first of them cut short at its type
\* step, and the steps of the third are in the result
C16_Witness ==
    /\ ValidateReturned
    /\ ~NonConformingRoot(input)
    /\ Len(input.features.fs) = 3
    /\ input.features.fs[1].type = "Other"
    /\ ~results.isValid
    /\ Len(StepsOf(results.steps, 0)) = 1
    /\ Len(StepsOf(results.steps, 2)) > 1

\* the place of a rule in the evaluation order of one feature; the three
\* rules of a position share a place and are ordered by CoordinateRank
StepRank(name) ==
    CASE name = "type" -> 1
      [] name = "properties" -> 2
      [] name = "property plot_ID" -> 3
      [] name = "property farmer_name" -> 4
      [] name = "property area" -> 5
      [] name = "geometry" -> 6
      [] name = "geometry type" -> 6
      [] name = "coordinates" -> 7
      [] name = "interior rings" -> 8
      [] name = "exterior ring" -> 9
      [] name = "ring array" -> 10
      [] name = "ring points" -> 11
      [] name = "ring closure" -> 12
      [] name = "duplicate points" -> 13
      [] name = "zero-length edge" -> 14
      [] name \in CoordinateRuleNames -> 15
      [] name = "self-intersection" -> 16
      [] name = "spike vertex" -> 17
      [] name = "straight lines" -> 18
      [] OTHER -> 0

CoordinateRank(name) ==
    CASE name = "format" -> 1
      [] name = "longitude" -> 2
      [] name = "latitude" -> 3
      [] OTHER -> 0

\* step b may directly follow step a in the steps of one feature
MayFollow(a, b) ==
    \/ StepRank(a.rule.name) < StepRank(b.rule.name)
    \/ /\ a.rule.name = b.rule.name
       /\ a.rule.name \in {"duplicate points", "zero-length edge"}
       /\ a.message.arg[1] < b.message.arg[1]
    \/ /\ a.rule.name = b.rule.name
       /\ a.rule.name \in {"spike vertex", "geometry type"}
    \/ /\ a.rule.name \in CoordinateRuleNames
       /\ b.rule.name \in CoordinateRuleNames
       /\ \/ a.rule.p < b.rule.p
          \/ /\ a.rule.p = b.rule.p
             /\ CoordinateRank(a.rule.name) < CoordinateRank(b.rule.name)

InEvaluationOrder(st) ==
    /\ \A k \in 1..Len(st) : StepRank(st[k].rule.name) > 0
    /\ \A k \in 1..(Len(st) - 1) : MayFollow(st[k], st[k + 1])

\* ... whose only ring is an array of at least 4 positions
HasLongRing(feature) ==
    /\ HasPolygon(feature)
    /\ Len(feature.geometry.coordinates.rings) = 1
    /\ feature.geometry.coordinates.rings[1].k = "arr"
    /\ Len(feature.geometry.coordinates.rings[1].pts) >= 4

\* the steps st of a feature hold every rule of the chain down to the
\* straight-lines step, and a format step for each of the n positions
IsFullTrace(st, n) ==
    /\ \A name \in {"type", "properties", "property plot_ID",
                     "property farmer_name", "geometry type", "coordinates",
                     "interior rings", "exterior ring", "ring array",
                     "ring points", "ring closure", "self-intersection",
                     "spike vertex", "straight lines"} :
          \E k \in 1..Len(st) : st[k].rule.name = name
    /\ \A p \in 0..(n - 1) :
          \E k \in 1..Len(st) : st[k].rule.name = "format" /\ st[k].rule.p = p

\* C17: within one feature's returned result the steps appear in the
\* evaluation order of the rule chain, from the feature type down to the
\* straight-lines step, with all duplicate-point and then all zero-length-edge
\* violations in pair order and the per-position steps in position order; a
\* feature whose ring has at least 4 positions gets the whole chain, whether or
\* not the ring is closed.
C17_StepOrder ==
    /\ (ValidateReturned /\ ~NonConformingRoot(input)) =>
          \A i \in 1..Len(input.features.fs) :
             /\ InEvaluationOrder(StepsOf(results.steps, i - 1))
             /\ HasLongRing(input.features.fs[i]) =>
                   IsFullTrace(StepsOf(results.steps, i - 1),
                               Len(input.features.fs[i].geometry.coordinates.rings[1].pts))
    /\ (entry = "validateAll" /\ pc = "returned") =>
          \A i \in 1..Len(plots) :
             /\ InEvaluationOrder(plots[i].steps)
             /\ HasLongRing(input.features.fs[i]) =>
                   IsFullTrace(plots[i].steps,
                               Len(input.features.fs[i].geometry.coordinates.rings[1].pts))

\* a ring that is not closed and repeats a position was validated: the closure
\* failure is followed by the duplicate, zero-length, position and quality steps
C17_Witness ==
    /\ ValidateReturned
    /\ ~NonConformingRoot(input)
    /\ Len(input.features.fs) = 1
    /\ HasLongRing(input.features.fs[1])
    /\ FailingCount(results.steps, "ring closure") = 1
    /\ FailingCount(results.steps, "duplicate points") = 2
    /\ FailingCount(results.steps, "zero-length edge") = 2
    /\ PassingCount(results.steps, "latitude") = 5
    /\ PassingCount(results.steps, "straight lines") = 1

StraightLinesStep(st) == SelectSeq(st, LAMBDA x : x.rule.name = "straight lines")

\* the straight-lines step of a ring of n positions, closed or not
StraightLinesVerdict(st, f, pts) ==
    LET sl == StraightLinesStep(st)
        closed == ~DifferAfterRounding(pts[1], pts[Len(pts)])
    IN  /\ Len(sl) = 1
        /\ (Len(pts) = 4 /\ closed) =>
              /\ sl[1].passed
              /\ sl[1].message = FMsg(f, "Polygon is a closed triangle (acceptable)")
        /\ (Len(pts) = 4 /\ ~closed) =>
              /\ ~sl[1].passed
              /\ sl[1].message = FMsg(f, "Polygon may have excessive straight lines (not enough points for curves)")
        /\ Len(pts) > 4 => sl[1].passed

\* a closed ring of 4 in-range [lon, lat] positions around three different
\* vertices, with no angle below 5 degrees at the two inner positions
IsTriangleRing(pts) ==
    /\ Len(pts) = 4
    /\ \A i \in 1..4 :
          /\ pts[i].k = "arr"
          /\ Len(pts[i].c) = 2
          /\ NumberWithin(pts[i].c[1], -180, 180)
          /\ NumberWithin(pts[i].c[2], -90, 90)
    /\ ~DifferAfterRounding(pts[1], pts[4])
    /\ \A i, j \in 1..3 : i # j => DifferAfterRounding(pts[i], pts[j])
    /\ ~SpikeBetween(pts[1], pts[2], pts[3])
    /\ ~SpikeBetween(pts[2], pts[3], pts[4])

FailingCountAt(steps, name, i) ==
    Len(SelectSeq(steps, LAMBDA st : /\ st.rule.name = name
                                     /\ ~st.passed
                                     /\ st.message.arg = <<i - 1, i>>))

\* the 0-based indices i of the ring whose positions i-1 and i are equal
\* after rounding to 6 decimals
ToleranceEqualPairs(pts) ==
    {i \in 1..(Len(pts) - 1) : ~DifferAfterRounding(pts[i], pts[i + 1])}

\* C21: for a ring of at least 4 positions every adjacent pair (i-1, i) of
\* tolerance-equal positions produces exactly one "Duplicate consecutive
\* points" violation and exactly one "Zero-length edge" violation naming the
\* same indices, a pair that is not tolerance-equal produces neither, and the
\* number of duplicate violations equals the number of zero-length violations.
C21_DuplicateAndZeroLength ==
    RuleValidated =>
        /\ \A i \in 1..(Len(ring) - 1) :
              LET n == IF i \in ToleranceEqualPairs(ring) THEN 1 ELSE 0
              IN  /\ FailingCountAt(results.steps, "duplicate points", i) = n
                  /\ FailingCountAt(results.steps, "zero-length edge", i) = n
                  /\ Len(SelectSeq(results.errors,
                        LAMBDA m : m = Msg(0, -1, "Duplicate consecutive points at",
                                           "", <<i - 1, i>>))) = n
                  /\ Len(SelectSeq(results.errors,
                        LAMBDA m : m = Msg(0, -1, "Zero-length edge at points",
                                           "", <<i - 1, i>>))) = n
        /\ FailingCount(results.steps, "duplicate points")
              = Cardinality(ToleranceEqualPairs(ring))
        /\ FailingCount(results.steps, "duplicate points")
              = FailingCount(results.steps, "zero-length edge")

\* a ring with two adjacent positions that differ, but only in the 7th
\* decimal, and with another adjacent pair that is not equal, was validated
C21_Witness ==
    /\ RuleValidated
    /\ \E i \in ToleranceEqualPairs(ring) : ring[i] # ring[i + 1]
    /\ ToleranceEqualPairs(ring) # 1..(Len(ring) - 1)
    /\ FailingCount(results.steps, "zero-length edge") >= 1

\* a feature that gets past the type and properties tests
ReachesPropertyChecks(feature) ==
    /\ feature.k = "obj"
    /\ feature.type = "Feature"
    /\ feature.properties.k \in {"obj", "null"}

\* the steps st of one feature hold exactly one step of the rule `name`, and
\* it has the given verdict
OneStep(st, name, passed) ==
    /\ FailingCount(st, name) + PassingCount(st, name) = 1
    /\ PassingCount(st, name) = (IF passed THEN 1 ELSE 0)

\* the steps st hold a step of the geometry check after every property step
GeometryCheckRan(st) ==
    \E k \in 1..Len(st) :
        /\ st[k].rule.name \in {"geometry", "geometry type"}
        /\ \A j \in 1..Len(st) :
              st[j].rule.name \in PropertyRuleNames => j < k

\* C22: for a feature with type "Feature" and an object or null properties,
\* both required-property checks run and each missing name gets its own
\* failing step, a non-numeric area gets a failing step, and the geometry
\* check still runs afterwards.
C22_PropertiesDoNotShortCircuit ==
    (ValidateEnded /\ ~NonConformingRoot(input)) =>
        \A i \in 1..Len(input.features.fs) :
           LET feature == input.features.fs[i]
               st == StepsOf(results.steps, i - 1)
           IN  ReachesPropertyChecks(feature) =>
                 /\ OneStep(st, "property plot_ID", HasProperty(feature, "plot_ID"))
                 /\ OneStep(st, "property farmer_name",
                            HasProperty(feature, "farmer_name"))
                 /\ (HasProperty(feature, "area")
                       /\ ~feature.properties.areaIsNumber)
                      => OneStep(st, "property area", FALSE)
                 /\ GeometryCheckRan(st)

\* the feature is not null and its type is not "Feature"
HasWrongType(feature) == feature.k # "null" /\ feature.type # "Feature"

\* the feature has type "Feature" and its properties key is absent or holds
\* a value that is neither null nor an object
HasBadProperties(feature) ==
    /\ feature.k = "obj"
    /\ feature.type = "Feature"
    /\ feature.properties.k \in {"absent", "prim"}

\* the steps st of feature f are the failing "type" step and nothing else
OnlyFailingType(st, f) ==
    st = <<[rule |-> Rule(f, -1, "type"), passed |-> FALSE,
            message |-> FMsg(f, "Type must be 'Feature'")]>>

\* the steps st of feature f are the passing "type" step and the failing
\* "properties" step
OnlyFailingProperties(st, f) ==
    st = <<[rule |-> Rule(f, -1, "type"), passed |-> TRUE,
            message |-> FMsg(f, "type is 'Feature'")],
           [rule |-> Rule(f, -1, "properties"), passed |-> FALSE,
            message |-> FMsg(f, "'properties' must be an object or null")]>>

\* C23: a feature whose type is not "Feature" contributes exactly one step,
\* the failing "type" step; a feature of type "Feature" whose properties key
\* is absent or holds neither null nor an object contributes exactly the
\* passing type step and one failing properties step, and no
\* required-property, area or geometry step.
C23_TypeAndPropertiesShortCircuit ==
    /\ (ValidateReturned /\ ~NonConformingRoot(input)) =>
          \A i \in 1..Len(input.features.fs) :
             LET feature == input.features.fs[i]
                 st == StepsOf(results.steps, i - 1)
                 errs == SelectSeq(results.errors, LAMBDA m : m.f = i - 1)
             IN  /\ HasWrongType(feature)
                       => /\ OnlyFailingType(st, i - 1)
                          /\ errs = <<FMsg(i - 1, "Type must be 'Feature'")>>
                 /\ HasBadProperties(feature)
                       => /\ OnlyFailingProperties(st, i - 1)
                          /\ errs = <<FMsg(i - 1,
                                       "'properties' must be an object or null")>>
    /\ (entry = "validateAll" /\ pc = "returned") =>
          \A i \in 1..Len(plots) :
             LET feature == input.features.fs[i]
             IN  /\ HasWrongType(feature)
                       => OnlyFailingType(plots[i].steps, i - 1)
                 /\ HasBadProperties(feature)
                       => OnlyFailingProperties(plots[i].steps, i - 1)

\* a feature of type "Feature" without a properties key, with a Polygon
\* geometry, was validated
C23_Witness ==
    /\ ValidateReturned
    /\ ~NonConformingRoot(input)
    /\ Len(input.features.fs) = 1
    /\ HasBadProperties(input.features.fs[1])
    /\ input.features.fs[1].properties.k = "absent"
    /\ input.features.fs[1].geometry.k = "obj"
    /\ Len(results.steps) = 4
    /\ ~results.isValid

\* a feature that reaches the geometry test with "geometry": null
HasNullGeometry(feature) ==
    /\ feature.k = "obj"
    /\ feature.type = "Feature"
    /\ feature.properties.k = "obj"
    /\ feature.geometry.k = "null"

GeometryRuleNames ==
    {"geometry type", "coordinates", "interior rings", "exterior ring",
     "ring array", "ring points"}

\* every required-property and area step among st passed
PropertyChecksPass(st) ==
    \A k \in 1..Len(st) :
        st[k].rule.name \in PropertyRuleNames => st[k].passed

\* the steps st of feature f end in the passing step for a null geometry and
\* hold no step of the Geometry, Polygon, Ring or Coordinate Rule
NullGeometryAccepted(st, f) ==
    /\ st # <<>>
    /\ st[Len(st)] = [rule |-> Rule(f, -1, "geometry"), passed |-> TRUE,
                      message |-> FMsg(f, "geometry is null (allowed)")]
    /\ OneStep(st, "geometry", TRUE)
    /\ NoStepNamed(st, GeometryRuleNames \cup RingCheckNames
                         \cup CoordinateRuleNames)

\* C24: a feature whose geometry is exactly null records a passing geometry
\* step and no geometry-type, coordinate or ring step, and it is valid
\* whenever its type and property checks pass.
C24_NullGeometry ==
    /\ (ValidateReturned /\ ~NonConformingRoot(input)) =>
          \A i \in 1..Len(input.features.fs) :
             LET st == StepsOf(results.steps, i - 1)
             IN  HasNullGeometry(input.features.fs[i]) =>
                   /\ NullGeometryAccepted(st, i - 1)
                   /\ PropertyChecksPass(st) =>
                         /\ ~HasFailingStep(st)
                         /\ \A k \in 1..Len(results.errors) :
                               results.errors[k].f # i - 1
                         /\ Len(input.features.fs) = 1 => results.isValid
    /\ (entry = "validateAll" /\ pc = "returned") =>
          \A i \in 1..Len(plots) :
             HasNullGeometry(input.features.fs[i]) =>
                /\ NullGeometryAccepted(plots[i].steps, i - 1)
                /\ plots[i].isValid <=> PropertyChecksPass(plots[i].steps)

\* a feature with all its properties and "geometry": null was found valid
C24_Witness ==
    /\ ValidateReturned
    /\ ~NonConformingRoot(input)
    /\ Len(input.features.fs) = 1
    /\ HasNullGeometry(input.features.fs[1])
    /\ input.features.fs[1].properties = GoodProperties
    /\ results.isValid
    /\ Len(results.steps) = 8

\* a feature that hands a non-null geometry to the Geometry Rule
ReachesGeometryRule(feature) ==
    /\ feature.k = "obj"
    /\ feature.type = "Feature"
    /\ feature.properties.k = "obj"
    /\ feature.geometry.k \in {"obj", "prim"}

\* the steps among st that follow the type and property steps
GeometrySteps(st) ==
    SelectSeq(st, LAMBDA x : x.rule.name \notin
                               {"type", "properties"} \cup PropertyRuleNames)

\* what the Geometry Rule records for the geometry of feature f, given the
\* steps g it recorded from the geometry on
GeometryOutcome(g, f, geometry) ==
    IF geometry.type \notin validTypes
    THEN g = <<[rule |-> Rule(f, -1, "geometry type"), passed |-> FALSE,
               message |-> FMsg(f, "Invalid geometry type")]>>
    ELSE IF geometry.type # "Polygon"
    THEN g = <<[rule |-> Rule(f, -1, "geometry type"), passed |-> TRUE,
               message |-> Msg(f, -1, "Geometry type is", geometry.type, <<>>)],
              [rule |-> Rule(f, -1, "geometry type"), passed |-> FALSE,
               message |-> FMsg(f, "Only Polygon geometries are supported")]>>
    ELSE /\ Len(g) >= 2
         /\ g[1].rule.name = "geometry type"
         /\ g[1].passed
         /\ g[2].rule.name = "coordinates"
         /\ FailingCount(g, "geometry type") = 0

\* C25: an unrecognized or missing geometry.type yields one failing step
\* "Invalid geometry type"; a recognized kind other than Polygon yields a
\* different failing step "Only Polygon geometries are supported"; only
\* Polygon proceeds to the coordinates check.  In both failing cases no
\* coordinates, polygon or ring step is recorded, and of the recognized kinds
\* only Polygon can produce a valid feature with a non-null geometry.
C25_GeometryKinds ==
    /\ (ValidateReturned /\ ~NonConformingRoot(input)) =>
          \A i \in 1..Len(input.features.fs) :
             LET feature == input.features.fs[i]
                 st == StepsOf(results.steps, i - 1)
             IN  ReachesGeometryRule(feature) =>
                   /\ GeometryOutcome(GeometrySteps(st), i - 1, feature.geometry)
                   /\ feature.geometry.type # "Polygon" =>
                         /\ FailingCount(GeometrySteps(st), "geometry type") = 1
                         /\ Len(SelectSeq(results.errors,
                                          LAMBDA m : m.f = i - 1 /\ m.text \in
                                             {"Invalid geometry type",
                                              "Only Polygon geometries are supported"}))
                               = 1
                         /\ ~results.isValid
                   /\ ~HasFailingStep(st) => feature.geometry.type = "Polygon"
    /\ (entry = "validateAll" /\ pc = "returned") =>
          \A i \in 1..Len(plots) :
             LET feature == input.features.fs[i]
             IN  ReachesGeometryRule(feature) =>
                   /\ GeometryOutcome(GeometrySteps(plots[i].steps), i - 1,
                                      feature.geometry)
                   /\ plots[i].isValid => feature.geometry.type = "Polygon"

\* a feature with all its properties and a LineString geometry over a valid
\* ring was rejected by the Polygon-only test
C25_Witness ==
    /\ ValidateReturned
    /\ ~NonConformingRoot(input)
    /\ Len(input.features.fs) = 1
    /\ ReachesGeometryRule(input.features.fs[1])
    /\ input.features.fs[1].properties = GoodProperties
    /\ input.features.fs[1].geometry.type = "LineString"
    /\ input.features.fs[1].geometry.coordinates = Coordinates(<<RingOf(Rectangle)>>)
    /\ results.errors = <<FMsg(0, "Only Polygon geometries are supported")>>

\* an array of 2 or 3 elements
IsWellFormedPosition(pos) == pos.k = "arr" /\ Len(pos.c) \in {2, 3}

\* the steps / errors recorded for the point p (0-based) of feature 0
StepsOfPoint(steps, p) == SelectSeq(steps, LAMBDA st : st.rule.p = p)
ErrorsOfPoint(errors, p) == SelectSeq(errors, LAMBDA m : m.p = p)

\* what the Coordinate Rule records for the position pos at point p
CoordinateOutcome(ps, errs, pos, p) ==
    IF ~IsWellFormedPosition(pos)
    THEN /\ ps = <<[rule |-> Rule(0, p, "format"), passed |-> FALSE,
                    message |-> Msg(0, p, "Invalid coordinate format", "", <<>>)]>>
         /\ errs = <<Msg(0, p, "Invalid coordinate format", "", <<>>)>>
    ELSE LET lonOk == NumberWithin(pos.c[1], -180, 180)
             latOk == NumberWithin(pos.c[2], -90, 90)
         IN  /\ Len(ps) = 3
             /\ ps[1].rule.name = "format" /\ ps[1].passed
             /\ ps[2].rule.name = "longitude" /\ ps[2].passed = lonOk
             /\ ps[3].rule.name = "latitude" /\ ps[3].passed = latOk
             /\ Len(errs) = (IF lonOk THEN 0 ELSE 1) + (IF latOk THEN 0 ELSE 1)
             /\ ~lonOk => errs[1].text = "Invalid longitude"
             /\ ~latOk => errs[Len(errs)].text = "Invalid latitude"

\* C26: a position that is not an array of length 2 or 3 yields exactly one
\* failing step and no longitude / latitude step; for a well-formed position
\* the longitude check (numeric and within [-180, 180], bounds included) and
\* the latitude check (numeric and within [-90, 90], bounds included) are both
\* evaluated and each records its own step, so a position with both out of
\* range yields two violations.
C26_CoordinateRule ==
    (ValidateReturned /\ IsSinglePolygonDocument(input)
       /\ Len(OnlyRing(input)) >= 4) =>
        \A p \in 0..(Len(OnlyRing(input)) - 1) :
           CoordinateOutcome(StepsOfPoint(results.steps, p),
                             ErrorsOfPoint(results.errors, p),
                             OnlyRing(input)[p + 1], p)

\* a ring with a position whose longitude and latitude are both out of range
\* was validated and got both violations
C26_Witness ==
    /\ ValidateReturned
    /\ IsSinglePolygonDocument(input)
    /\ Len(OnlyRing(input)) >= 4
    /\ OnlyRing(input)[2] = P(-181, 91)
    /\ Len(ErrorsOfPoint(results.errors, 1)) = 2

PlainReturned == entry = "validate" /\ pc = "plainReturned"

\* the number has a non-zero 7th decimal (numbers carry at most 7)
MoreThanSixDecimals(val) == val.k = "num" /\ val.e % 10 # 0

\* the precision violations the plain engine recorded for point p
PrecisionErrors(errors, p) ==
    SelectSeq(errors, LAMBDA m : m.p = p
                                 /\ m.text = "Excessive coordinate precision")

\* C27: validateGeoJSON records an "Excessive coordinate precision" violation
\* for a position exactly when its longitude or its latitude has more than 6
\* fractional digits, and validateGeoJSONWithSteps never records one.
C27_PrecisionEnforcement ==
    /\ (PlainReturned /\ IsSinglePolygonDocument(input)
          /\ Len(OnlyRing(input)) >= 4) =>
          \A p \in 0..(Len(OnlyRing(input)) - 1) :
             LET pos == OnlyRing(input)[p + 1]
             IN  IsWellFormedPosition(pos) =>
                   Len(PrecisionErrors(plainResults.errors, p))
                     = (IF MoreThanSixDecimals(pos.c[1])
                           \/ MoreThanSixDecimals(pos.c[2]) THEN 1 ELSE 0)
    /\ \A k \in 1..Len(results.errors) :
          results.errors[k].text # "Excessive coordinate precision"
    /\ \A k \in 1..Len(results.steps) :
          results.steps[k].message.text # "Excessive coordinate precision"

\* no coordinate of any ring of the document has a 7th decimal
AtMostSixDecimals(d) ==
    \A i \in 1..Len(d.features.fs) :
       LET feature == d.features.fs[i]
       IN  (feature.k = "obj" /\ feature.geometry.k = "obj"
              /\ feature.geometry.coordinates.k = "arr") =>
             \A r \in 1..Len(feature.geometry.coordinates.rings) :
                LET pts == feature.geometry.coordinates.rings[r].pts
                IN  \A p \in 1..Len(pts) :
                       \A c \in 1..Len(pts[p].c) :
                          ~MoreThanSixDecimals(pts[p].c[c])

IsSelfIntersection(m) == m.text = "Self-intersection detected"

\* errs with every self-intersection message that repeats the one before it
\* left out
RECURSIVE CollapseSelfIntersections(_)
CollapseSelfIntersections(errs) ==
    IF Len(errs) < 2 THEN errs
    ELSE IF IsSelfIntersection(errs[1]) /\ errs[2] = errs[1]
    THEN CollapseSelfIntersections(Tail(errs))
    ELSE <<errs[1]>> \o CollapseSelfIntersections(Tail(errs))

\* C28: for every document on which neither engine throws and whose
\* coordinates have at most 6 fractional digits, validateGeoJSON and
\* validateGeoJSONWithSteps return the same isValid and the same errors
\* sequence up to repeated self-intersection messages.
C28_EnginesAgree ==
    (PlainReturned /\ (~NonConformingRoot(input) => AtMostSixDecimals(input))) =>
        /\ plainResults.isValid = results.isValid
        /\ CollapseSelfIntersections(plainResults.errors)
             = CollapseSelfIntersections(results.errors)

\* the messages of the steps with passed = false, in order
RECURSIVE FailingMessages(_)
FailingMessages(steps) ==
    IF steps = <<>> THEN <<>>
    ELSE (IF Head(steps).passed THEN <<>> ELSE <<Head(steps).message>>)
         \o FailingMessages(Tail(steps))

\* C29: in every result of validateGeoJSONWithSteps and in every per-plot
\* entry, errors is exactly the sequence of the messages of the steps with
\* passed = false, in the same order: the call after a failing addStep is the
\* addError with the identical message, and an addError is only ever called
\* right after the failing step with its message.
C29_ErrorsMirrorFailingSteps ==
    /\ ValidateEnded => results.errors = FailingMessages(results.steps)
    /\ (entry = "validateAll" /\ pc \in {"mapping", "returned", "threw"}) =>
          /\ results.errors = FailingMessages(results.steps)
          /\ \A i \in 1..Len(plots) :
                plots[i].errors = FailingMessages(plots[i].steps)
    /\ (pc = "running" /\ pending # <<>>) =>
          /\ (Head(pending).fn = "addStep" /\ ~Head(pending).passed) =>
                /\ Len(pending) >= 2
                /\ pending[2] = ErrorCall(Head(pending).message)
          /\ Head(pending).fn = "addError" =>
                /\ results.steps # <<>>
                /\ ~results.steps[Len(results.steps)].passed
                /\ results.steps[Len(results.steps)].message
                      = Head(pending).message

\* a result with several failing steps, two of them from one position, was
\* returned
C29_Witness ==
    /\ ValidateReturned
    /\ Len(results.errors) >= 3
    /\ results.errors = FailingMessages(results.steps)
    /\ \E k \in 1..(Len(results.errors) - 1) :
          /\ results.errors[k].text = "Invalid longitude"
          /\ results.errors[k + 1].text = "Invalid latitude"

\* the ring indices 1 .. n-2 (0-based) whose vertex is a spike
InteriorSpikes(pts) ==
    {i \in 1..(Len(pts) - 2) : SpikeBetween(pts[i], pts[i + 1], pts[i + 2])}

\* a closed ring whose only angle below 5 degrees is at its first / last
\* position
HasOnlySeamSpike(pts) ==
    /\ pts[1] = pts[Len(pts)]
    /\ SpikeBetween(pts[Len(pts) - 1], pts[1], pts[2])
    /\ InteriorSpikes(pts) = {}

\* the same closed polygon, started at its second position
StartAtSecond(pts) == SubSeq(pts, 2, Len(pts) - 1) \o <<pts[1], pts[2]>>

\* C30: the spike check examines exactly the vertices at ring indices
\* 1 .. n-2, one violation for each of them below 5 degrees, and never the
\* vertex shared by the first and last position; a closed ring whose only
\* angle below 5 degrees is at that position passes the spike check, in both
\* engines, while the same polygon started at its second position fails it.
C30_SeamNeverExamined ==
    /\ RuleValidated =>
          /\ FailingCount(results.steps, "spike vertex")
                = Cardinality(InteriorSpikes(ring))
          /\ PassingCount(results.steps, "spike vertex")
                = (IF InteriorSpikes(ring) = {} THEN 1 ELSE 0)
          /\ HasOnlySeamSpike(ring) =>
                FailingCount(
                    ApplyCalls(FreshResults,
                               validateRingWithSteps(RingOf(StartAtSecond(ring)),
                                                     0).ops).steps,
                    "spike vertex") = 1
    /\ (entry = "rule" /\ pc = "plainValidated") =>
          Len(SelectSeq(plainResults.errors,
                        LAMBDA m : m.text = "Spike vertex detected"))
             = Cardinality(InteriorSpikes(ring))

\* the triangle with 1.9 degrees at its first / last position went through
\* both engines without a spike violation
C30_Witness ==
    /\ entry = "rule"
    /\ pc = "plainValidated"
    /\ ring = SeamSliverTriangle
    /\ HasOnlySeamSpike(ring)
    /\ PassingCount(results.steps, "spike vertex") = 1
    /\ \A k \in 1..Len(plainResults.errors) :
          plainResults.errors[k].text # "Spike vertex detected"

====
